---------------------------- MODULE Spec2Model ----------------------------
(***************************************************************************)
(* Document lifecycle, report resolution and rating engine of UniNotes     *)
(* (backend/app): the moderation state machine of papers and notes, the    *)
(* report workflow with its notification side effects, the default search  *)
(* visibility rule and the rating upsert, as implemented by                *)
(* services/paper.py, routers/notes.py, routers/admin.py and               *)
(* services/notification.py over the schema of db/models.py.               *)
(*                                                                         *)
(* A handler is one atomic action in the sequential specifications;        *)
(* RaceSpec cuts a handler between the queries it decides on and the       *)
(* writes it commits, and lets the requests interleave there.              *)
(***************************************************************************)
EXTENDS Integers, Sequences, FiniteSets, TLC

VARIABLES
    store,          \* database backend the deployment runs on (db/session.py)
    papers,         \* table papers:        id -> row
    notes,          \* table notes:         id -> row
    reports,        \* table reports:       id -> row
    noteReports,    \* table note_reports:  id -> row
    ratings,        \* table ratings:       id -> row
    noteRatings,    \* table note_ratings:  id -> row
    notifications,  \* table notifications, in insertion order
    taxonomy,       \* tables universities .. subjects: id -> row
    downloads,      \* tables downloads and note_downloads, in insertion order
    bookmarks,      \* tables bookmarks and note_bookmarks: the rows
    activities,     \* table user_activities, in insertion order
    now,            \* the value datetime.utcnow() returns next
    response,       \* what the last finished handler returned to its caller
    reqs            \* in-flight requests of the concurrent specifications

vars == <<store, papers, notes, reports, noteReports, ratings, noteRatings,
          notifications, taxonomy, downloads, bookmarks, activities, now, response, reqs>>

-----------------------------------------------------------------------------
(* Bounds of the model *)

MaxDocs == 2

MaxReports == 2

MaxRatings == 2

MaxClock == 2

NumReqs == 2
\* The value a view or download counter is followed up to.
MaxCount == 2
\* Rows of the taxonomy tables, all five together.
MaxNodes == 6
\* Rows of downloads and note_downloads together.
MaxDownloads == 2
\* Rows of user_activities.
MaxActivities == 2

-----------------------------------------------------------------------------
(* Values *)

Admin == "admin"

Students == {"u1", "u2"}

Anonymous == "anonymous"

Hashes == {"h1", "h2"}

DocIds == 1..MaxDocs

ReportIds == 1..MaxReports

RatingIds == 1..MaxRatings

PaperStatus == {"PENDING", "APPROVED", "REJECTED"}

ReportStatus == {"OPEN", "CLOSED"}

\* A NULL timestamp column; the clock starts above it.
NullTime == 0

\* A NULL user reference.
NullUser == "NULL"

\* A NULL id column (related_paper_id, related_report_id).
NullId == 0

\* Free text is a sequence of characters, so that lower() and the "in"
\* substring test of the handlers are computed and not assumed.
TxtEmpty == <<>>

TxtOk == <<"o", "k">>

TxtReject == <<"R", "e", "j", "e", "c", "t">>

TxtRemove == <<"r", "e", "m", "o", "v", "e", " ", "i", "t">>

KwReject == <<"r", "e", "j", "e", "c", "t">>

KwRemove == <<"r", "e", "m", "o", "v", "e">>

UpperToLower ==
    ("R" :> "r") @@ ("E" :> "e") @@ ("J" :> "j") @@ ("C" :> "c") @@
    ("T" :> "t") @@ ("M" :> "m") @@ ("O" :> "o") @@ ("V" :> "v")

\* str.lower()
Lower(s) ==
    [i \in 1..Len(s) |-> IF s[i] \in DOMAIN UpperToLower THEN UpperToLower[s[i]] ELSE s[i]]

\* sub in s
Contains(sub, s) ==
    \E i \in 1..(Len(s) - Len(sub) + 1) : SubSeq(s, i, i + Len(sub) - 1) = sub

\* A stored notes column: NULL, the caller's text, or one of the handlers'
\* f-strings with the report reason and the admin's text substituted.
NoNotes == [fmt |-> "NULL", reason |-> "", notes |-> TxtEmpty]

Plain(t) == [fmt |-> "{notes}", reason |-> "", notes |-> t]

Literal(s) == [fmt |-> s, reason |-> "", notes |-> TxtEmpty]

Fmt(f, reason, t) == [fmt |-> f, reason |-> reason, notes |-> t]

\* notes or "<default>"
NotesOr(t, default) == IF t # TxtEmpty THEN Plain(t) ELSE default

\* The smallest id of ids not used yet (uuid4: an id no row has).
FreshId(ids, used) == CHOOSE i \in ids \ used : \A j \in ids \ used : i <= j

Range(f) == {f[x] : x \in DOMAIN f}

-----------------------------------------------------------------------------
(* The database as one value, so that a handler is a function of it *)

DB ==
    [papers |-> papers, notes |-> notes, reports |-> reports,
     noteReports |-> noteReports, ratings |-> ratings,
     noteRatings |-> noteRatings, notifications |-> notifications,
     taxonomy |-> taxonomy, downloads |-> downloads, bookmarks |-> bookmarks,
     activities |-> activities]

SetDB(d) ==
    /\ papers' = d.papers
    /\ notes' = d.notes
    /\ reports' = d.reports
    /\ noteReports' = d.noteReports
    /\ ratings' = d.ratings
    /\ noteRatings' = d.noteRatings
    /\ notifications' = d.notifications
    /\ taxonomy' = d.taxonomy
    /\ downloads' = d.downloads
    /\ bookmarks' = d.bookmarks
    /\ activities' = d.activities

EmptyDB ==
    [papers |-> <<>>, notes |-> <<>>, reports |-> <<>>, noteReports |-> <<>>,
     ratings |-> <<>>, noteRatings |-> <<>>, notifications |-> <<>>,
     taxonomy |-> <<>>, downloads |-> <<>>, bookmarks |-> {}, activities |-> <<>>]

\* The tables after create_all and before any request.
SetDBInit ==
    /\ papers = EmptyDB.papers
    /\ notes = EmptyDB.notes
    /\ reports = EmptyDB.reports
    /\ noteReports = EmptyDB.noteReports
    /\ ratings = EmptyDB.ratings
    /\ noteRatings = EmptyDB.noteRatings
    /\ notifications = EmptyDB.notifications
    /\ taxonomy = EmptyDB.taxonomy
    /\ downloads = EmptyDB.downloads
    /\ bookmarks = EmptyDB.bookmarks
    /\ activities = EmptyDB.activities

\* PostgreSQL enforces foreign keys; SQLite, opened without the foreign_keys
\* pragma, does not.
Stores == {"postgresql", "sqlite"}

\* No value given for a filter.
NoFilter == ""

\* filters.tags is the set of the names listed; none listed is the empty set.
Filters(uploaded_by, status) ==
    [uploaded_by |-> uploaded_by, status |-> status, tags |-> {}]

TagFilters(tag_names) == [Filters(NoFilter, NoFilter) EXCEPT !.tags = tag_names]

NoFilters == Filters(NoFilter, NoFilter)

\* An average_rating of a response: None, or a number kept in hundredths
\* (round(x, 2)).
NullAverage == [null |-> TRUE, hundredths |-> 0]

Average(h) == [null |-> FALSE, hundredths |-> h]

\* The rating statistics of a response; none for a handler that gives none.
Stats(count, average) == [total_ratings |-> count, average_rating |-> average]

NoStats == Stats(0, NullAverage)

\* One page of a listing: the sort and order asked for, the page and its
\* size, and the rows of the page in the order returned.
Page(sort, order, page, page_size, rows) ==
    [sort |-> sort, order |-> order, page |-> page, page_size |-> page_size, rows |-> rows]

NoPage == Page("", "", 0, 0, <<>>)

\* activity tells whether the handler called the activity recorder, and
\* whether the row was stored ("recorded") or not ("failed").
\* What a handler hands back: the operation, the kind and id of its target,
\* the acting user, the error raised ("OK" when none), the ids returned, the
\* notification dispatches attempted and the number reported. A search also
\* carries the filters it was asked with; arg is the file_hash of a create,
\* the action of a moderation or resolution, the status of a note update.
Resp(op, kind, id, user, err, items, notified, n) ==
    [op |-> op, kind |-> kind, id |-> id, user |-> user, err |-> err,
     items |-> items, notified |-> notified, n |-> n, filters |-> NoFilters,
     arg |-> "", stats |-> NoStats, page |-> NoPage, activity |-> "none"]

NoResp == Resp("none", "", NullId, NullUser, "OK", {}, 0, 0)

\* A handler's outcome: the database it leaves, the clock, its response.
Out(d, t, r) == [db |-> d, now |-> t, resp |-> r]

WithArg(out, a) == [out EXCEPT !.resp.arg = a]

Finish(out) ==
    /\ SetDB(out.db)
    /\ now' = out.now
    /\ response' = out.resp
    /\ UNCHANGED <<store, reqs>>

-----------------------------------------------------------------------------
(* Rows and the constraints of the schema (db/models.py) *)

\* Paper / Note: created PENDING, never approved, without moderation notes,
\* its counters at their default of 0, tags the names of the Tag rows that
\* PaperTag / NoteTag associate with it. subject_id is the Subject row the
\* upload names, NullId where the taxonomy is not followed and the lookup of
\* the subject is an input of the request.
NewDoc(uploader, file_hash) ==
    [file_hash |-> file_hash, uploader_id |-> uploader, status |-> "PENDING",
     approved_at |-> NullTime, moderation_notes |-> NoNotes,
     view_count |-> 0, download_count |-> 0, subject_id |-> NullId, tags |-> {},
     title |-> "t0"]

\* Download / NoteDownload, Bookmark / NoteBookmark: the document and the
\* user (NullUser for an anonymous download).
DocUserRow(kind, doc_id, user) == [kind |-> kind, doc_id |-> doc_id, user_id |-> user]

\* UserActivity: who did what to which paper or note.
NewActivity(user, type, kind, doc_id) ==
    [user_id |-> user, activity_type |-> type, kind |-> kind, doc_id |-> doc_id]

\* Ids are uuid4 values: no paper shares its id with a note, no report with
\* a note report.
UsedDocIds(d) == DOMAIN d.papers \cup DOMAIN d.notes

UsedReportIds(d) == DOMAIN d.reports \cup DOMAIN d.noteReports

UsedRatingIds(d) == DOMAIN d.ratings \cup DOMAIN d.noteRatings

\* file_hash = Column(String(64), unique=True, ...): the INSERT is refused
\* when a row of the table holds the hash.
UniqueHashOk(table, file_hash) ==
    \A i \in DOMAIN table : table[i].file_hash # file_hash

\* UniqueConstraint("user_id", "paper_id") / ("user_id", "note_id")
UniqueRatingOk(table, user, doc) ==
    \A i \in DOMAIN table : ~(table[i].user_id = user /\ table[i].doc_id = doc)

-----------------------------------------------------------------------------
(* Document Repository: create *)

\* PaperService.create_paper. subject_ok and file_ok stand for the Subject
\* lookup and storage_service.check_file_exists.
create_paper(d, t, uploader, file_hash, subject_ok, file_ok) ==
    WithArg(
        IF \E i \in DOMAIN d.papers : d.papers[i].file_hash = file_hash
        THEN Out(d, t, Resp("create", "paper", NullId, uploader, "DuplicateContent", {}, 0, 0))
        ELSE IF ~subject_ok \/ ~file_ok
        THEN Out(d, t, Resp("create", "paper", NullId, uploader, "ValidationError", {}, 0, 0))
        ELSE IF ~UniqueHashOk(d.papers, file_hash)
        THEN \* except IntegrityError: rollback, raise DuplicateFileError
             Out(d, t, Resp("create", "paper", NullId, uploader, "DuplicateContent", {}, 0, 0))
        ELSE LET id == FreshId(DocIds, UsedDocIds(d))
             IN  Out([d EXCEPT !.papers = d.papers @@ (id :> NewDoc(uploader, file_hash))],
                     t, Resp("create", "paper", id, uploader, "OK", {}, 0, 0)),
        file_hash)

\* PaperService.create_paper from "try:" on: the INSERT of db.flush() and
\* the commit; except IntegrityError: rollback, raise DuplicateFileError.
create_paper_insert(d, t, uploader, file_hash) ==
    WithArg(
        IF ~UniqueHashOk(d.papers, file_hash)
        THEN Out(d, t, Resp("create", "paper", NullId, uploader, "DuplicateContent", {}, 0, 0))
        ELSE LET id == FreshId(DocIds, UsedDocIds(d))
             IN  Out([d EXCEPT !.papers = d.papers @@ (id :> NewDoc(uploader, file_hash))],
                     t, Resp("create", "paper", id, uploader, "OK", {}, 0, 0)),
        file_hash)

\* routers/notes.py create_note: no lookup by hash; db.flush() raises the
\* store's IntegrityError, which no handler translates.
create_note(d, t, uploader, file_hash, subject_ok) ==
    WithArg(
        IF ~subject_ok
        THEN Out(d, t, Resp("create", "note", NullId, uploader, "ValidationError", {}, 0, 0))
        ELSE IF ~UniqueHashOk(d.notes, file_hash)
        THEN Out(d, t, Resp("create", "note", NullId, uploader, "IntegrityError", {}, 0, 0))
        ELSE LET id == FreshId(DocIds, UsedDocIds(d))
             IN  Out([d EXCEPT !.notes = d.notes @@ (id :> NewDoc(uploader, file_hash))],
                     t, Resp("create", "note", id, uploader, "OK", {}, 0, 0)),
        file_hash)

\* PaperService._add_tags_to_paper and the tag loop of create_note /
\* update_note: each name given, stripped and lowered, blank ones skipped,
\* is the name of the Tag row (found or created) the document is tied to.
\* The names given hold no blanks at their ends.
add_tags(tag_names) == {Lower(n) : n \in {m \in tag_names : m # <<>>}}

\* create_paper for a request that names an existing subject and file and
\* lists tags.
create_paper_tagged(d, t, uploader, file_hash, tag_names) ==
    LET c == create_paper(d, t, uploader, file_hash, TRUE, TRUE)
    IN  IF c.resp.err = "OK"
        THEN [c EXCEPT !.db.papers[c.resp.id].tags = add_tags(tag_names)]
        ELSE c

\* create_note for a request that names an existing subject and lists tags.
create_note_tagged(d, t, uploader, file_hash, tag_names) ==
    LET c == create_note(d, t, uploader, file_hash, TRUE)
    IN  IF c.resp.err = "OK"
        THEN [c EXCEPT !.db.notes[c.resp.id].tags = add_tags(tag_names)]
        ELSE c

-----------------------------------------------------------------------------
(* Document Repository: update *)

\* PaperUpdate / NoteUpdate: the fields the request sets
\* (dict(exclude_unset=True)) and their values.
Patch(title_set, title, tags_set, tag_names) ==
    [title_set |-> title_set, title |-> title, tags_set |-> tags_set, tags |-> tag_names]

\* setattr for each field set but tags; the tag associations deleted and
\* added anew when tags is given.
patched(row, patch) ==
    [row EXCEPT !.title = IF patch.title_set THEN patch.title ELSE @,
                !.tags = IF patch.tags_set THEN add_tags(patch.tags) ELSE @]

\* PaperService.update_paper: the uploader and an admin may update.
update_paper(d, t, paper_id, patch, user) ==
    IF paper_id \notin DOMAIN d.papers
    THEN Out(d, t, Resp("update", "paper", paper_id, user, "NotFound", {}, 0, 0))
    ELSE IF d.papers[paper_id].uploader_id # user /\ user # Admin
    THEN Out(d, t, Resp("update", "paper", paper_id, user, "Forbidden", {}, 0, 0))
    ELSE Out([d EXCEPT !.papers[paper_id] = patched(@, patch)], t,
             Resp("update", "paper", paper_id, user, "OK", {}, 0, 0))

\* routers/notes.py update_note: the uploader alone may update. updated_at,
\* which it stamps, is not a column of the rows here.
update_note(d, t, note_id, patch, user) ==
    IF note_id \notin DOMAIN d.notes
    THEN Out(d, t, Resp("update", "note", note_id, user, "NotFound", {}, 0, 0))
    ELSE IF d.notes[note_id].uploader_id # user
    THEN Out(d, t, Resp("update", "note", note_id, user, "Forbidden", {}, 0, 0))
    ELSE Out([d EXCEPT !.notes[note_id] = patched(@, patch)], t,
             Resp("update", "note", note_id, user, "OK", {}, 0, 0))

-----------------------------------------------------------------------------
(* Document Repository: delete *)

\* Rows of table whose doc_id is id.
RowsOf(table, id) == {i \in DOMAIN table : table[i].doc_id = id}

\* The table without the rows of ids.
Dropped(table, ids) == [i \in DOMAIN table \ ids |-> table[i]]

\* db.delete(doc); db.commit(). The relationships reports, ratings,
\* downloads, bookmarks and activities carry no delete cascade, so the
\* session first sets the foreign key of each child to NULL: user_activities
\* allows it, the other columns are NOT NULL and the store refuses. ON DELETE
\* CASCADE of notifications.related_paper_id acts where the store enforces
\* foreign keys.
delete_row(d, st, kind, id) ==
    LET children == IF kind = "paper"
                    THEN RowsOf(d.reports, id) \cup RowsOf(d.ratings, id)
                    ELSE RowsOf(d.noteReports, id) \cup RowsOf(d.noteRatings, id)
        held == \/ \E i \in DOMAIN d.downloads :
                      d.downloads[i].kind = kind /\ d.downloads[i].doc_id = id
                \/ \E b \in d.bookmarks : b.kind = kind /\ b.doc_id = id
        kept == IF st = "postgresql" /\ kind = "paper"
                THEN SelectSeq(d.notifications, LAMBDA n : n.related_paper_id # id)
                ELSE d.notifications
        orphaned == [i \in DOMAIN d.activities |->
                        IF d.activities[i].kind = kind /\ d.activities[i].doc_id = id
                        THEN [d.activities[i] EXCEPT !.doc_id = NullId]
                        ELSE d.activities[i]]
    IN  IF children # {} \/ held
        THEN [ok |-> FALSE, db |-> d]
        ELSE [ok |-> TRUE,
              db |-> IF kind = "paper"
                     THEN [d EXCEPT !.papers = Dropped(d.papers, {id}), !.notifications = kept,
                                    !.activities = orphaned]
                     ELSE [d EXCEPT !.notes = Dropped(d.notes, {id}),
                                    !.activities = orphaned]]

\* PaperService.delete_paper
delete_paper(d, st, t, paper_id, user) ==
    LET resp(e) == Out(d, t, Resp("delete", "paper", paper_id, user, e, {}, 0, 0))
    IN  IF paper_id \notin DOMAIN d.papers THEN resp("NotFound")
        ELSE LET paper == d.papers[paper_id]
                 is_admin == user = Admin
                 is_uploader == paper.uploader_id = user
                 is_pending == paper.status = "PENDING"
                 del == delete_row(d, st, "paper", paper_id)
             IN  IF ~is_admin /\ ~(is_uploader /\ is_pending) THEN resp("Forbidden")
                 ELSE IF ~del.ok THEN resp("IntegrityError")
                 ELSE Out(del.db, t, Resp("delete", "paper", paper_id, user, "OK", {}, 0, 0))

\* routers/notes.py delete_note
delete_note(d, st, t, note_id, user) ==
    LET resp(e) == Out(d, t, Resp("delete", "note", note_id, user, e, {}, 0, 0))
    IN  IF note_id \notin DOMAIN d.notes THEN resp("NotFound")
        ELSE LET note == d.notes[note_id]
                 del == delete_row(d, st, "note", note_id)
             IN  IF note.uploader_id # user /\ user # Admin THEN resp("Forbidden")
                 ELSE IF ~del.ok THEN resp("IntegrityError")
                 ELSE Out(del.db, t, Resp("delete", "note", note_id, user, "OK", {}, 0, 0))

-----------------------------------------------------------------------------
(* Moderation *)

\* moderate_paper without the stamp of approved_at.
moderate_paper_unstamped(d, t, paper_id, action, mod_notes, force) ==
    IF paper_id \notin DOMAIN d.papers
    THEN [err |-> "NotFound", db |-> d, now |-> t]
    ELSE IF ~force /\ d.papers[paper_id].status # "PENDING"
    THEN [err |-> "InvalidTransition", db |-> d, now |-> t]
    ELSE IF action \in {"approve", "reject"}
    THEN [err |-> "OK",
          db |-> [d EXCEPT !.papers[paper_id].status =
                               IF action = "approve" THEN "APPROVED" ELSE "REJECTED",
                           !.papers[paper_id].moderation_notes = mod_notes],
          now |-> t]
    ELSE [err |-> "ValidationError", db |-> d, now |-> t]

\* PaperService.moderate_paper; it commits, so what the session holds
\* unflushed (d) is the committed state afterwards. The result names the
\* error, the database and the clock.
moderate_paper(d, t, paper_id, action, mod_notes, force) ==
    IF paper_id \notin DOMAIN d.papers
    THEN [err |-> "NotFound", db |-> d, now |-> t]
    ELSE IF ~force /\ d.papers[paper_id].status # "PENDING"
    THEN [err |-> "InvalidTransition", db |-> d, now |-> t]
    ELSE IF action = "approve"
    THEN [err |-> "OK",
          db |-> [d EXCEPT !.papers[paper_id].status = "APPROVED",
                           !.papers[paper_id].approved_at = t,
                           !.papers[paper_id].moderation_notes = mod_notes],
          now |-> t + 1]
    ELSE IF action = "reject"
    THEN [err |-> "OK",
          db |-> [d EXCEPT !.papers[paper_id].status = "REJECTED",
                           !.papers[paper_id].moderation_notes = mod_notes],
          now |-> t]
    ELSE [err |-> "ValidationError", db |-> d, now |-> t]

\* routers/admin.py moderate_paper_admin and routers/papers.py moderate_paper:
\* both call the service without force; PaperModerationAction admits
\* approve and reject only.
moderate_paper_admin(d, t, paper_id, action, mod_notes) ==
    WithArg(
        LET m == moderate_paper(d, t, paper_id, action, mod_notes, FALSE)
        IN  Out(m.db, m.now, Resp("moderate", "paper", paper_id, Admin, m.err, {}, 0, 0)),
        action)

\* routers/notes.py update_note_status: the status of the request is stored
\* as given.
update_note_status(d, t, note_id, status, mod_notes) ==
    WithArg(
        IF note_id \notin DOMAIN d.notes
        THEN Out(d, t, Resp("moderate", "note", note_id, Admin, "NotFound", {}, 0, 0))
        ELSE LET d1 == [d EXCEPT !.notes[note_id].status = status,
                                 !.notes[note_id].moderation_notes = mod_notes]
             IN  IF status = "APPROVED"
                 THEN Out([d1 EXCEPT !.notes[note_id].approved_at = t], t + 1,
                          Resp("moderate", "note", note_id, Admin, "OK", {}, 0, 0))
                 ELSE Out(d1, t, Resp("moderate", "note", note_id, Admin, "OK", {}, 0, 0)),
        status)

\* The status a moderation action asks for.
StatusOf(action) == IF action = "approve" THEN "APPROVED" ELSE "REJECTED"

-----------------------------------------------------------------------------
(* Reports *)

NewReport(doc_field_value, reporter, reason) ==
    [doc_id |-> doc_field_value, reporter_id |-> reporter, reason |-> reason,
     status |-> "OPEN", admin_notes |-> NoNotes, resolved_by_id |-> NullUser,
     resolved_at |-> NullTime]

\* The query of report_paper / report_note for an OPEN report of this
\* reporter on this document.
existing_report(table, doc_id, reporter) ==
    {i \in DOMAIN table : /\ table[i].doc_id = doc_id
                          /\ table[i].reporter_id = reporter
                          /\ table[i].status = "OPEN"}

\* report_paper without the query for an OPEN report.
report_paper_check_paper_only(d, paper_id, reporter) ==
    IF paper_id \notin DOMAIN d.papers THEN "NotFound" ELSE "OK"

\* PaperService.report_paper up to its two queries: the paper, then an
\* OPEN report of this reporter on it.
report_paper_check(d, paper_id, reporter) ==
    IF paper_id \notin DOMAIN d.papers THEN "NotFound"
    ELSE IF existing_report(d.reports, paper_id, reporter) # {} THEN "DuplicateOpenReport"
    ELSE "OK"

\* PaperService.report_paper from Report(...) on: add, commit. Nothing in
\* the schema refuses the row.
report_paper_insert(d, t, paper_id, reporter, reason) ==
    LET id == FreshId(ReportIds, UsedReportIds(d))
    IN  Out([d EXCEPT !.reports = d.reports @@ (id :> NewReport(paper_id, reporter, reason))],
            t, Resp("report", "paper", paper_id, reporter, "OK", {}, 0, id))

\* PaperService.report_paper
report_paper(d, t, paper_id, reporter, reason) ==
    IF report_paper_check(d, paper_id, reporter) # "OK"
    THEN Out(d, t, Resp("report", "paper", paper_id, reporter,
                        report_paper_check(d, paper_id, reporter), {}, 0, NullId))
    ELSE report_paper_insert(d, t, paper_id, reporter, reason)

\* routers/notes.py report_note
report_note(d, t, note_id, reporter, reason) ==
    IF note_id \notin DOMAIN d.notes
    THEN Out(d, t, Resp("report", "note", note_id, reporter, "NotFound", {}, 0, NullId))
    ELSE IF existing_report(d.noteReports, note_id, reporter) # {}
    THEN Out(d, t, Resp("report", "note", note_id, reporter, "DuplicateOpenReport", {}, 0, NullId))
    ELSE LET id == FreshId(ReportIds, UsedReportIds(d))
         IN  Out([d EXCEPT !.noteReports = d.noteReports @@ (id :> NewReport(note_id, reporter, reason))],
                 t, Resp("report", "note", note_id, reporter, "OK", {}, 0, id))

-----------------------------------------------------------------------------
(* Notifications *)

NewNotification(user, type, paper_id, report_id) ==
    [user_id |-> user, type |-> type, related_paper_id |-> paper_id,
     related_report_id |-> report_id]

\* related_paper_id references papers.id and related_report_id references
\* reports.id: the INSERT is refused by a store that enforces foreign keys
\* when the id names no row of that table (a note's id, a note report's id).
ForeignKeysOk(d, st, row) ==
    \/ st # "postgresql"
    \/ /\ row.related_paper_id = NullId \/ row.related_paper_id \in DOMAIN d.papers
       /\ row.related_report_id = NullId \/ row.related_report_id \in DOMAIN d.reports

\* NotificationService.create_notification: add, commit. sess is what the
\* session holds (flushed by this commit), com the last committed state.
\* A refused INSERT rolls the whole transaction back and raises.
create_notification(sess, com, st, row) ==
    IF ForeignKeysOk(sess, st, row)
    THEN [ok |-> TRUE,
          db |-> [sess EXCEPT !.notifications = Append(sess.notifications, row)]]
    ELSE [ok |-> FALSE, db |-> com]

\* NotificationService.create_paper_status_notification with status="rejected"
create_paper_status_notification(sess, com, st, user, paper_id) ==
    create_notification(sess, com, st, NewNotification(user, "ERROR", paper_id, NullId))

\* NotificationService.create_warning_notification
create_warning_notification(sess, com, st, user, paper_id, report_id) ==
    create_notification(sess, com, st, NewNotification(user, "WARNING", paper_id, report_id))

-----------------------------------------------------------------------------
(* Report resolution *)

ResolveActions == {"dismiss", "take_action", "remove_paper", "warn_user"}

\* "reject" in notes.lower() or "remove" in notes.lower()
SuggestsRejection(admin_text) ==
    Contains(KwReject, Lower(admin_text)) \/ Contains(KwRemove, Lower(admin_text))

\* report.status = CLOSED; resolved_by_id = current_user.id; resolved_at = utcnow()
CloseReport(row, t, admin_notes) ==
    [row EXCEPT !.status = "CLOSED", !.resolved_by_id = Admin, !.resolved_at = t,
                !.admin_notes = admin_notes]

RejectedDueToReport(reason, admin_text) ==
    Fmt("Rejected due to report: {reason}. Admin notes: {notes}", reason, admin_text)

PaperRemovedDueToReport(reason, admin_text) ==
    Fmt("Paper removed due to report: {reason}. Admin notes: {notes}", reason, admin_text)

NoteRemovedDueToReport(reason, admin_text) ==
    Fmt("Note removed due to report: {reason}. Admin notes: {notes}", reason, admin_text)

\* routers/admin.py resolve_report on a row of reports
resolve_paper_report(d, st, t, report_id, action, admin_text) ==
    LET report == d.reports[report_id]
        pid == report.doc_id
        fail(e) == Out(d, t, Resp("resolve", "paper", report_id, Admin, e, {}, 0, 0))
        done(db, n) == Out(db, t + 1, Resp("resolve", "paper", report_id, Admin, "OK", {}, n, 0))
        closed(an) == [d EXCEPT !.reports[report_id] = CloseReport(report, t, an)]
    IN  CASE action = "dismiss" ->
               done(closed(NotesOr(admin_text, Literal("Report dismissed - no violation found"))), 0)
          [] action = "take_action" ->
               LET d1 == closed(NotesOr(admin_text, Literal("Action taken by admin - paper reviewed")))
               IN  IF SuggestsRejection(admin_text)
                   THEN LET m == moderate_paper(d1, t + 1, pid, "reject",
                                                RejectedDueToReport(report.reason, admin_text), TRUE)
                        IN  IF m.err = "OK" THEN done(m.db, 0) ELSE fail(m.err)
                   ELSE done(d1, 0)
          [] action = "remove_paper" ->
               LET d1 == closed(NotesOr(admin_text,
                                        Fmt("Paper removed due to report: {reason}", report.reason, TxtEmpty)))
                   m == moderate_paper(d1, t + 1, pid, "reject",
                                       PaperRemovedDueToReport(report.reason, admin_text), TRUE)
               IN  IF m.err # "OK" THEN fail(m.err)
                   ELSE IF m.db.papers[pid].uploader_id # NullUser
                   THEN LET n == create_paper_status_notification(
                                     m.db, m.db, st, m.db.papers[pid].uploader_id, pid)
                        IN  IF n.ok THEN done(n.db, 1)
                            ELSE Out(n.db, t + 1,
                                     Resp("resolve", "paper", report_id, Admin, "IntegrityError", {}, 1, 0))
                   ELSE done(m.db, 0)
          [] action = "warn_user" ->
               LET d1 == closed(NotesOr(admin_text,
                                        Fmt("User warned about: {reason}", report.reason, TxtEmpty)))
               IN  IF pid \in DOMAIN d.papers /\ d.papers[pid].uploader_id # NullUser
                   THEN LET n == create_warning_notification(
                                     d1, d, st, d.papers[pid].uploader_id, pid, report_id)
                        IN  IF n.ok THEN done(n.db, 1)
                            ELSE Out(n.db, t + 1,
                                     Resp("resolve", "paper", report_id, Admin, "IntegrityError", {}, 1, 0))
                   ELSE done(d1, 0)
          [] OTHER -> done(closed(NotesOr(admin_text, Literal("Report resolved"))), 0)

\* routers/admin.py resolve_report on a row of note_reports. The warn_user
\* branch reads note.author_id, an attribute Note does not have.
resolve_note_report(d, st, t, report_id, action, admin_text) ==
    LET report == d.noteReports[report_id]
        nid == report.doc_id
        fail(e) == Out(d, t, Resp("resolve", "note", report_id, Admin, e, {}, 0, 0))
        done(db) == Out(db, t + 1, Resp("resolve", "note", report_id, Admin, "OK", {}, 0, 0))
        closed(an) == [d EXCEPT !.noteReports[report_id] = CloseReport(report, t, an)]
    IN  CASE action = "dismiss" ->
               done(closed(NotesOr(admin_text, Literal("Report dismissed - no violation found"))))
          [] action = "take_action" ->
               done(closed(NotesOr(admin_text, Literal("Action taken by admin - note reviewed"))))
          [] action = "remove_paper" ->
               done(closed(NotesOr(admin_text,
                                   Fmt("Note removed due to report: {reason}", report.reason, TxtEmpty))))
          [] action = "warn_user" ->
               IF nid \in DOMAIN d.notes
               THEN fail("AttributeError")
               ELSE done(closed(NotesOr(admin_text,
                                        Fmt("User warned about note: {reason}", report.reason, TxtEmpty))))
          [] OTHER -> done(closed(NotesOr(admin_text, Literal("Report resolved"))))

\* resolve_report without the test of report.status.
resolve_report_any_status(d, st, t, report_id, action, admin_text) ==
    WithArg(
        IF report_id \in DOMAIN d.reports
        THEN resolve_paper_report(d, st, t, report_id, action, admin_text)
        ELSE IF report_id \in DOMAIN d.noteReports
        THEN resolve_note_report(d, st, t, report_id, action, admin_text)
        ELSE Out(d, t, Resp("resolve", "", report_id, Admin, "NotFound", {}, 0, 0)),
        action)

\* resolve_report with the warning handled as the removal is.
resolve_report_warn_as_remove(d, st, t, report_id, action, admin_text) ==
    LET a == IF action = "warn_user" THEN "remove_paper" ELSE action
    IN  WithArg(
            IF report_id \in DOMAIN d.reports
            THEN IF d.reports[report_id].status = "CLOSED"
                 THEN Out(d, t, Resp("resolve", "paper", report_id, Admin, "AlreadyResolved", {}, 0, 0))
                 ELSE resolve_paper_report(d, st, t, report_id, a, admin_text)
            ELSE IF report_id \in DOMAIN d.noteReports
            THEN IF d.noteReports[report_id].status = "CLOSED"
                 THEN Out(d, t, Resp("resolve", "note", report_id, Admin, "AlreadyResolved", {}, 0, 0))
                 ELSE resolve_note_report(d, st, t, report_id, a, admin_text)
            ELSE Out(d, t, Resp("resolve", "", report_id, Admin, "NotFound", {}, 0, 0)),
            action)

\* routers/admin.py resolve_report: the paper report of that id, else the
\* note report, else 404; a CLOSED report is refused.
resolve_report(d, st, t, report_id, action, admin_text) ==
    WithArg(
        IF report_id \in DOMAIN d.reports
        THEN IF d.reports[report_id].status = "CLOSED"
             THEN Out(d, t, Resp("resolve", "paper", report_id, Admin, "AlreadyResolved", {}, 0, 0))
             ELSE resolve_paper_report(d, st, t, report_id, action, admin_text)
        ELSE IF report_id \in DOMAIN d.noteReports
        THEN IF d.noteReports[report_id].status = "CLOSED"
             THEN Out(d, t, Resp("resolve", "note", report_id, Admin, "AlreadyResolved", {}, 0, 0))
             ELSE resolve_note_report(d, st, t, report_id, action, admin_text)
        ELSE Out(d, t, Resp("resolve", "", report_id, Admin, "NotFound", {}, 0, 0)),
        action)

-----------------------------------------------------------------------------
(* Bulk report resolution *)

\* The state of the loop of bulk_resolve_reports: what the session holds,
\* what is committed, the clock, the counters of the response, the
\* notification dispatches attempted and the exception that ended the loop.
BulkState(sess, com, t, resolved, affected, warned, notified, err) ==
    [sess |-> sess, com |-> com, now |-> t, resolved |-> resolved,
     affected |-> affected, warned |-> warned, notified |-> notified, err |-> err]

\* One OPEN row of reports in the loop.
bulk_paper_report(b, st, report_id, action, admin_text) ==
    LET d == b.sess
        report == d.reports[report_id]
        pid == report.doc_id
        t == b.now
        closed(an) == [d EXCEPT !.reports[report_id] = CloseReport(report, t, an)]
        next(sess, com, affected, warned, notified) ==
            BulkState(sess, com, t + 1, b.resolved + 1, b.affected + affected,
                      b.warned + warned, b.notified + notified, "OK")
        raise(e, notified) ==
            [b EXCEPT !.sess = b.com, !.notified = b.notified + notified, !.err = e]
    IN  CASE action = "dismiss" ->
               next(closed(NotesOr(admin_text, Literal("Report dismissed - no violation found"))),
                    b.com, 0, 0, 0)
          [] action = "take_action" ->
               LET d1 == closed(NotesOr(admin_text, Literal("Action taken by admin - paper reviewed")))
               IN  IF SuggestsRejection(admin_text)
                   THEN LET m == moderate_paper(d1, t + 1, pid, "reject",
                                                RejectedDueToReport(report.reason, admin_text), TRUE)
                        IN  IF m.err = "OK" THEN next(m.db, m.db, 1, 0, 0) ELSE raise(m.err, 0)
                   ELSE next(d1, b.com, 0, 0, 0)
          [] action = "remove_paper" ->
               LET d1 == closed(NotesOr(admin_text,
                                        Fmt("Paper removed due to report: {reason}", report.reason, TxtEmpty)))
                   m == moderate_paper(d1, t + 1, pid, "reject",
                                       PaperRemovedDueToReport(report.reason, admin_text), TRUE)
               IN  IF m.err # "OK" THEN raise(m.err, 0)
                   ELSE IF m.db.papers[pid].uploader_id # NullUser
                   THEN LET n == create_paper_status_notification(
                                     m.db, m.db, st, m.db.papers[pid].uploader_id, pid)
                        IN  IF n.ok THEN next(n.db, n.db, 1, 0, 1)
                            ELSE [raise("IntegrityError", 1) EXCEPT !.sess = m.db, !.com = m.db]
                   ELSE next(m.db, m.db, 1, 0, 0)
          [] action = "warn_user" ->
               LET d1 == closed(NotesOr(admin_text,
                                        Fmt("User warned about: {reason}", report.reason, TxtEmpty)))
               IN  IF pid \in DOMAIN d.papers /\ d.papers[pid].uploader_id # NullUser
                   THEN LET n == create_warning_notification(
                                     d1, b.com, st, d.papers[pid].uploader_id, pid, report_id)
                        IN  IF n.ok THEN next(n.db, n.db, 0, 1, 1)
                            ELSE raise("IntegrityError", 1)
                   ELSE next(d1, b.com, 0, 1, 0)
          [] OTHER -> next(closed(NotesOr(admin_text, Literal("Report resolved"))), b.com, 0, 0, 0)

\* One OPEN row of note_reports in the loop. The notifications carry the
\* note's id as related_paper_id and, for a warning, the note report's id as
\* related_report_id.
bulk_note_report(b, st, report_id, action, admin_text) ==
    LET d == b.sess
        report == d.noteReports[report_id]
        nid == report.doc_id
        t == b.now
        closed(an) == [d EXCEPT !.noteReports[report_id] = CloseReport(report, t, an)]
        next(sess, com, affected, warned, notified) ==
            BulkState(sess, com, t + 1, b.resolved + 1, b.affected + affected,
                      b.warned + warned, b.notified + notified, "OK")
        raise(e, notified) ==
            [b EXCEPT !.sess = b.com, !.notified = b.notified + notified, !.err = e]
    IN  CASE action = "dismiss" ->
               next(closed(NotesOr(admin_text, Literal("Report dismissed - no violation found"))),
                    b.com, 0, 0, 0)
          [] action = "take_action" ->
               next(closed(NotesOr(admin_text, Literal("Action taken by admin - note reviewed"))),
                    b.com, IF SuggestsRejection(admin_text) THEN 1 ELSE 0, 0, 0)
          [] action = "remove_paper" ->
               LET d1 == closed(NotesOr(admin_text,
                                        Fmt("Note removed due to report: {reason}", report.reason, TxtEmpty)))
               IN  IF nid \in DOMAIN d.notes
                   THEN LET d2 == [d1 EXCEPT !.notes[nid].status = "REJECTED",
                                             !.notes[nid].moderation_notes =
                                                 NoteRemovedDueToReport(report.reason, admin_text)]
                        IN  IF d.notes[nid].uploader_id # NullUser
                            THEN LET n == create_paper_status_notification(
                                              d2, b.com, st, d.notes[nid].uploader_id, nid)
                                 IN  IF n.ok THEN next(n.db, n.db, 1, 0, 1)
                                     ELSE raise("IntegrityError", 1)
                            ELSE next(d2, b.com, 1, 0, 0)
                   ELSE next(d1, b.com, 1, 0, 0)
          [] action = "warn_user" ->
               LET d1 == closed(NotesOr(admin_text,
                                        Fmt("User warned about: {reason}", report.reason, TxtEmpty)))
               IN  IF nid \in DOMAIN d.notes /\ d.notes[nid].uploader_id # NullUser
                   THEN LET n == create_warning_notification(
                                     d1, b.com, st, d.notes[nid].uploader_id, nid, report_id)
                        IN  IF n.ok THEN next(n.db, n.db, 0, 1, 1)
                            ELSE raise("IntegrityError", 1)
                   ELSE next(d1, b.com, 0, 1, 0)
          [] OTHER -> next(closed(NotesOr(admin_text, Literal("Report resolved"))), b.com, 0, 0, 0)

\* The loop without the test of report.status: every row found is resolved.
RECURSIVE bulk_loop_any_status(_, _, _, _, _)
bulk_loop_any_status(b, st, order, action, admin_text) ==
    IF order = <<>> \/ b.err # "OK" THEN b
    ELSE LET rid == Head(order)
             b1 == IF rid \in DOMAIN b.sess.reports
                   THEN bulk_paper_report(b, st, rid, action, admin_text)
                   ELSE bulk_note_report(b, st, rid, action, admin_text)
         IN  bulk_loop_any_status(b1, st, Tail(order), action, admin_text)

\* for report in reports: if report.status == ReportStatus.OPEN: ...
\* order lists the rows found, paper reports first. An exception leaves the
\* loop; a CLOSED report is passed over.
RECURSIVE bulk_loop(_, _, _, _, _)
bulk_loop(b, st, order, action, admin_text) ==
    IF order = <<>> \/ b.err # "OK" THEN b
    ELSE LET rid == Head(order)
             b1 == IF rid \in DOMAIN b.sess.reports
                   THEN IF b.sess.reports[rid].status = "OPEN"
                        THEN bulk_paper_report(b, st, rid, action, admin_text)
                        ELSE b
                   ELSE IF b.sess.noteReports[rid].status = "OPEN"
                        THEN bulk_note_report(b, st, rid, action, admin_text)
                        ELSE b
         IN  bulk_loop(b1, st, Tail(order), action, admin_text)

\* The orders in which the two queries of bulk_resolve_reports may list the
\* rows of ids: neither has an ORDER BY; paper_reports + note_reports.
Orderings(S) ==
    {o \in [1..Cardinality(S) -> S] : \A i, j \in 1..Cardinality(S) : i # j => o[i] # o[j]}

BulkOrders(d, ids) ==
    {p \o n : p \in Orderings(ids \cap DOMAIN d.reports),
              n \in Orderings(ids \cap DOMAIN d.noteReports)}

\* routers/admin.py bulk_resolve_reports
bulk_resolve_reports(d, st, t, order, action, admin_text) ==
    WithArg(
        IF order = <<>>
        THEN Out(d, t, Resp("bulk_resolve", "", NullId, Admin, "NotFound", {}, 0, 0))
        ELSE LET b == bulk_loop(BulkState(d, d, t, 0, 0, 0, 0, "OK"), st, order, action, admin_text)
             IN  IF b.err = "OK"
                 THEN Out(b.sess, b.now,
                          Resp("bulk_resolve", "", NullId, Admin, "OK", Range(order), b.notified, b.resolved))
                 ELSE Out(b.com, b.now,
                          Resp("bulk_resolve", "", NullId, Admin, b.err, Range(order), b.notified, 0)),
        action)

-----------------------------------------------------------------------------
(* Search Composer: the status and uploader predicates *)

\* search_papers without its status predicates.
search_papers_any_status(d, filters, user) ==
    {i \in DOMAIN d.papers :
        filters.uploaded_by = "me" /\ user # Anonymous => d.papers[i].uploader_id = user}

\* query.join(Paper.tags).filter(Tag.name.in_(filters.tags)): the papers
\* of ids with a tag whose name is one of those listed.
join_tags_in(d, ids, tag_names) ==
    {i \in ids : \E g \in d.papers[i].tags : g \in tag_names}

\* PaperService.search_papers: the rows the status/uploader part of the
\* query and its tag filter keep. user is Anonymous when the request carries
\* no identity.
search_papers(d, filters, user) ==
    LET kept == {i \in DOMAIN d.papers :
                    IF filters.uploaded_by = "me" /\ user # Anonymous
                    THEN /\ d.papers[i].uploader_id = user
                         /\ filters.status # NoFilter => d.papers[i].status = filters.status
                    ELSE IF user = Anonymous \/ user # Admin
                         THEN d.papers[i].status = "APPROVED"
                         ELSE filters.status # NoFilter => d.papers[i].status = filters.status}
    IN  IF filters.tags # {} THEN join_tags_in(d, kept, filters.tags) ELSE kept

\* routers/notes.py get_notes with apply_note_filters: APPROVED rows only,
\* whoever asks; a status filter is a further conjunct, and so is, for each
\* name listed, Note.tags.any(Tag.name.ilike("%name%")).
get_notes(d, filters, user) ==
    {i \in DOMAIN d.notes :
        /\ d.notes[i].status = "APPROVED"
        /\ filters.status # NoFilter => d.notes[i].status = filters.status
        /\ \A n \in filters.tags :
              \E g \in d.notes[i].tags : Contains(Lower(n), Lower(g))}

\* routers/papers.py search_papers
search_papers_route(d, t, filters, user) ==
    LET found == search_papers(d, filters, user)
    IN  Out(d, t, [Resp("search", "paper", NullId, user, "OK", found, 0, Cardinality(found))
                       EXCEPT !.filters = filters])

\* routers/notes.py get_notes
get_notes_route(d, t, filters, user) ==
    LET found == get_notes(d, filters, user)
    IN  Out(d, t, [Resp("search", "note", NullId, user, "OK", found, 0, Cardinality(found))
                       EXCEPT !.filters = filters])

\* The orders in which a query with ORDER BY sort asc/desc may return the
\* rows ids of table: the column is its only sort key, and rows equal on it
\* come in whatever order the store produces for that query.
SortedOrders(table, ids, sort, order) ==
    {o \in Orderings(ids) :
        \A i, j \in 1..Cardinality(ids) :
            i < j => IF order = "asc"
                     THEN table[o[i]][sort] <= table[o[j]][sort]
                     ELSE table[o[i]][sort] >= table[o[j]][sort]}

\* query.offset(offset).limit(page_size) over the rows in the order the
\* store returned them.
OffsetLimit(rows, offset, page_size) ==
    SubSeq(rows, offset + 1, IF offset + page_size < Len(rows) THEN offset + page_size ELSE Len(rows))

\* PaginationParams: page at least 1, page_size between 1 and 100.
PaginationParams(page, page_size) ==
    [page |-> IF page < 1 THEN 1 ELSE page,
     page_size |-> IF page_size < 1 THEN 1 ELSE IF page_size > 100 THEN 100 ELSE page_size]

\* PaperService.search_papers, sorting and pagination: total is the count of
\* the filtered query; the page is read by a second query, ordered by the
\* sort column alone, whose order of the rows is ordering.
search_papers_page(d, t, filters, user, sort, order, pagination, ordering) ==
    LET found == search_papers(d, filters, user)
        offset == (pagination.page - 1) * pagination.page_size
        rows == OffsetLimit(ordering, offset, pagination.page_size)
    IN  Out(d, t, [Resp("search_page", "paper", NullId, user, "OK", Range(rows), 0, Cardinality(found))
                       EXCEPT !.filters = filters,
                              !.page = Page(sort, order, pagination.page, pagination.page_size, rows)])

\* routers/notes.py get_notes with apply_note_sorting: the same shape.
get_notes_page(d, t, filters, user, sort, order, page, per_page, ordering) ==
    LET found == get_notes(d, filters, user)
        offset == (page - 1) * per_page
        rows == OffsetLimit(ordering, offset, per_page)
    IN  Out(d, t, [Resp("search_page", "note", NullId, user, "OK", Range(rows), 0, Cardinality(found))
                       EXCEPT !.filters = filters,
                              !.page = Page(sort, order, page, per_page, rows)])

-----------------------------------------------------------------------------
(* Ratings *)

RatingValues == 1..5

NewRating(user, doc, value) ==
    [user_id |-> user, doc_id |-> doc, rating |-> value, updated_at |-> NullTime]

\* The query for the rating of this user on this document.
existing_rating(table, user, doc) ==
    {i \in DOMAIN table : table[i].user_id = user /\ table[i].doc_id = doc}

\* The INSERT into a table that has no unique constraint.
insert_rating_unconstrained(table, id, row) ==
    [ok |-> TRUE, table |-> table @@ (id :> row)]

\* INSERT INTO ratings / note_ratings under the unique constraint.
insert_rating(table, id, row) ==
    IF UniqueRatingOk(table, row.user_id, row.doc_id)
    THEN [ok |-> TRUE, table |-> table @@ (id :> row)]
    ELSE [ok |-> FALSE, table |-> table]

\* rate_paper without the query for the user's rating.
rate_paper_read_no_lookup(d, paper_id, user) ==
    IF paper_id \notin DOMAIN d.papers \/ d.papers[paper_id].status # "APPROVED"
    THEN [err |-> "NotFound", row |-> NullId]
    ELSE IF d.papers[paper_id].uploader_id = user
    THEN [err |-> "OwnPaper", row |-> NullId]
    ELSE [err |-> "OK", row |-> NullId]

\* PaperService.rate_paper up to its two queries: what it decides to do.
rate_paper_read(d, paper_id, user) ==
    IF paper_id \notin DOMAIN d.papers \/ d.papers[paper_id].status # "APPROVED"
    THEN [err |-> "NotFound", row |-> NullId]
    ELSE IF d.papers[paper_id].uploader_id = user
    THEN [err |-> "OwnPaper", row |-> NullId]
    ELSE IF existing_rating(d.ratings, user, paper_id) # {}
    THEN [err |-> "OK", row |-> CHOOSE i \in existing_rating(d.ratings, user, paper_id) : TRUE]
    ELSE [err |-> "OK", row |-> NullId]

\* PaperService.rate_paper from its decision on: the UPDATE of the row read,
\* or the INSERT of a new one, and the commit.
rate_paper_write(d, t, read, paper_id, user, value) ==
    LET resp(e) == Resp("rate", "paper", paper_id, user, e, {}, 0, value)
    IN  IF read.err # "OK" THEN Out(d, t, resp(read.err))
        ELSE IF read.row # NullId
        THEN Out([d EXCEPT !.ratings[read.row].rating = value,
                           !.ratings[read.row].updated_at = t],
                 t + 1, resp("OK"))
        ELSE LET ins == insert_rating(d.ratings, FreshId(RatingIds, UsedRatingIds(d)),
                                      NewRating(user, paper_id, value))
             IN  IF ins.ok THEN Out([d EXCEPT !.ratings = ins.table], t, resp("OK"))
                 ELSE Out(d, t, resp("IntegrityError"))

\* PaperService.rate_paper
rate_paper(d, t, paper_id, user, value) ==
    rate_paper_write(d, t, rate_paper_read(d, paper_id, user), paper_id, user, value)

\* routers/notes.py rate_note
rate_note(d, t, note_id, user, value) ==
    LET resp(e) == Resp("rate", "note", note_id, user, e, {}, 0, value)
        found == existing_rating(d.noteRatings, user, note_id)
    IN  IF note_id \notin DOMAIN d.notes \/ d.notes[note_id].status # "APPROVED"
        THEN Out(d, t, resp("NotFound"))
        ELSE IF found # {}
        THEN LET r == CHOOSE i \in found : TRUE
             IN  Out([d EXCEPT !.noteRatings[r].rating = value, !.noteRatings[r].updated_at = t],
                     t + 1, resp("OK"))
        ELSE LET ins == insert_rating(d.noteRatings, FreshId(RatingIds, UsedRatingIds(d)),
                                      NewRating(user, note_id, value))
             IN  IF ins.ok THEN Out([d EXCEPT !.noteRatings = ins.table], t, resp("OK"))
                 ELSE Out(d, t, resp("IntegrityError"))

RECURSIVE SumOf(_, _)
\* sum(rating.rating for rating in ratings) over the rows ids of table
SumOf(table, ids) ==
    IF ids = {} THEN 0
    ELSE LET i == CHOOSE x \in ids : TRUE
         IN  table[i].rating + SumOf(table, ids \ {i})

\* round(100 * a / b) to the nearest integer, a tie to the even one: the
\* hundredths of round(a / b, 2).
RoundHundredths(a, b) ==
    LET q == (100 * a) \div b
        r == (100 * a) % b
    IN  IF 2 * r < b THEN q
        ELSE IF 2 * r > b THEN q + 1
        ELSE IF q % 2 = 0 THEN q ELSE q + 1

\* PaperService._calculate_paper_rating_info: the statistics attached to a
\* paper that is listed or fetched.
calculate_paper_rating_info(d, paper_id) ==
    LET rows == RowsOf(d.ratings, paper_id)
    IN  IF rows = {}
        THEN Stats(0, NullAverage)
        ELSE Stats(Cardinality(rows),
                   Average(RoundHundredths(SumOf(d.ratings, rows), Cardinality(rows))))

\* PaperService.get_paper_rating_stats, past the check that the paper exists.
paper_rating_stats(d, paper_id) ==
    LET rows == RowsOf(d.ratings, paper_id)
    IN  IF rows = {}
        THEN Stats(0, Average(0))
        ELSE Stats(Cardinality(rows),
                   Average(RoundHundredths(SumOf(d.ratings, rows), Cardinality(rows))))

WithStats(out, st) == [out EXCEPT !.resp.stats = st]

\* routers/papers.py get_paper_rating_stats
get_paper_rating_stats(d, t, paper_id) ==
    IF paper_id \notin DOMAIN d.papers
    THEN Out(d, t, Resp("rating_stats", "paper", paper_id, Anonymous, "NotFound", {}, 0, 0))
    ELSE WithStats(Out(d, t, Resp("rating_stats", "paper", paper_id, Anonymous, "OK", {}, 0, 0)),
                   paper_rating_stats(d, paper_id))

\* A table without the row of that id.
Without(table, id) == [i \in DOMAIN table \ {id} |-> table[i]]

\* routers/papers.py delete_rating with PaperService.delete_rating: by rating
\* id, for its author only; the response carries the paper's statistics
\* after the delete.
delete_rating(d, t, rating_id, user) ==
    IF rating_id \in DOMAIN d.ratings /\ d.ratings[rating_id].user_id = user
    THEN LET d1 == [d EXCEPT !.ratings = Without(d.ratings, rating_id)]
             paper_id == d.ratings[rating_id].doc_id
         IN  WithStats(Out(d1, t, Resp("delete_rating", "paper", paper_id, user, "OK", {}, 0, 0)),
                       paper_rating_stats(d1, paper_id))
    ELSE Out(d, t, Resp("delete_rating", "paper", NullId, user, "ValidationError", {}, 0, 0))

\* routers/notes.py remove_rating: the caller's rating of that note.
remove_rating(d, t, note_id, user) ==
    LET found == existing_rating(d.noteRatings, user, note_id)
    IN  IF found # {}
        THEN Out([d EXCEPT !.noteRatings = Without(d.noteRatings, CHOOSE i \in found : TRUE)], t,
                 Resp("delete_rating", "note", note_id, user, "OK", {}, 0, 0))
        ELSE Out(d, t, Resp("delete_rating", "note", note_id, user, "NotFound", {}, 0, 0))

-----------------------------------------------------------------------------
(* Document Repository: fetch and download, with the counters they bump *)

\* round(10 * a / b) to the nearest integer, a tie to the even one, in
\* hundredths: round(a / b, 1).
RoundTenths(a, b) ==
    LET q == (10 * a) \div b
        r == (10 * a) % b
    IN  10 * (IF 2 * r < b THEN q
              ELSE IF 2 * r > b THEN q + 1
              ELSE IF q % 2 = 0 THEN q ELSE q + 1)

\* A fetch or download whose counter update the database refused says so in
\* arg; commit_ok is whether the database accepts that commit.
CounterFailed == "counter_failed"

\* PaperService.get_paper behind routers/papers.py get_paper: a paper that is
\* not APPROVED is shown to its uploader and to an admin only; an APPROVED one
\* has its view_count incremented and committed before the response is built.
get_paper(d, t, paper_id, user, commit_ok) ==
    LET resp(err) == Resp("get", "paper", paper_id, user, err, {}, 0, 0)
    IN  IF paper_id \notin DOMAIN d.papers
        THEN Out(d, t, resp("NotFound"))
        ELSE IF /\ d.papers[paper_id].status # "APPROVED"
                /\ \/ user = Anonymous
                   \/ d.papers[paper_id].uploader_id # user /\ user # Admin
        THEN Out(d, t, resp("NotFound"))
        ELSE IF d.papers[paper_id].status = "APPROVED" /\ ~commit_ok
        THEN WithArg(Out(d, t, resp("OperationalError")), CounterFailed)
        ELSE LET d1 == IF d.papers[paper_id].status = "APPROVED"
                       THEN [d EXCEPT !.papers[paper_id].view_count = @ + 1]
                       ELSE d
             IN  WithStats(Out(d1, t, resp("OK")), calculate_paper_rating_info(d1, paper_id))

\* PaperService.download_paper behind routers/papers.py download_paper: the
\* Download row is added and the download_count of an APPROVED paper
\* incremented in the one commit of the request.
download_paper(d, t, paper_id, user, commit_ok) ==
    LET resp(err) == Resp("download", "paper", paper_id, user, err, {}, 0, 0)
    IN  IF paper_id \notin DOMAIN d.papers
        THEN Out(d, t, resp("NotFound"))
        ELSE IF d.papers[paper_id].status # "APPROVED"
        THEN Out(d, t, resp("NotApproved"))
        ELSE IF ~commit_ok
        THEN WithArg(Out(d, t, resp("OperationalError")), CounterFailed)
        ELSE Out([d EXCEPT !.papers[paper_id].download_count = @ + 1,
                           !.downloads = Append(@, DocUserRow("paper", paper_id,
                                                   IF user = Anonymous THEN NullUser ELSE user))],
                 t, resp("OK"))

\* download_paper up to its query for the paper: the error it raises, or
\* the download_count the session has loaded with the row.
download_paper_read(d, paper_id) ==
    IF paper_id \notin DOMAIN d.papers THEN [err |-> "NotFound", count |-> 0]
    ELSE IF d.papers[paper_id].status # "APPROVED" THEN [err |-> "NotApproved", count |-> 0]
    ELSE [err |-> "OK", count |-> d.papers[paper_id].download_count]

\* download_paper from db.add(download_record) on: paper.download_count += 1
\* is computed on the value loaded, and the commit sends the INSERT and
\* UPDATE papers SET download_count = <that value + 1>.
download_paper_write(d, t, read, paper_id, user) ==
    LET resp(err) == Resp("download", "paper", paper_id, user, err, {}, 0, 0)
    IN  IF read.err # "OK" THEN Out(d, t, resp(read.err))
        ELSE Out([d EXCEPT !.papers[paper_id].download_count = read.count + 1,
                           !.downloads = Append(@, DocUserRow("paper", paper_id,
                                                   IF user = Anonymous THEN NullUser ELSE user))],
                 t, resp("OK"))

\* routers/notes.py increment_note_stats, run as a background task: an
\* exception of the update or its commit is printed and rolled back.
increment_note_stats(d, note_id, stat_type, commit_ok) ==
    IF ~commit_ok \/ note_id \notin DOMAIN d.notes
    THEN d
    ELSE IF stat_type = "view"
    THEN [d EXCEPT !.notes[note_id].view_count = @ + 1]
    ELSE IF stat_type = "download"
    THEN [d EXCEPT !.notes[note_id].download_count = @ + 1]
    ELSE d

\* The statistics get_note computes from note.ratings: None without ratings,
\* else the average rounded to one decimal.
note_rating_info(d, note_id) ==
    LET rows == RowsOf(d.noteRatings, note_id)
    IN  IF rows = {}
        THEN Stats(0, NullAverage)
        ELSE Stats(Cardinality(rows),
                   Average(RoundTenths(SumOf(d.noteRatings, rows), Cardinality(rows))))

\* routers/notes.py get_note: the view is counted for a signed-in caller, by
\* the background task that follows the response.
get_note(d, t, note_id, user, commit_ok) ==
    LET resp(err) == Resp("get", "note", note_id, user, err, {}, 0, 0)
    IN  IF note_id \notin DOMAIN d.notes
        THEN Out(d, t, resp("NotFound"))
        ELSE IF /\ d.notes[note_id].status # "APPROVED"
                /\ \/ user = Anonymous
                   \/ d.notes[note_id].uploader_id # user /\ user # Admin
        THEN Out(d, t, resp("NotFound"))
        ELSE LET d1 == IF user # Anonymous
                       THEN increment_note_stats(d, note_id, "view", commit_ok)
                       ELSE d
                 out == WithStats(Out(d1, t, resp("OK")), note_rating_info(d, note_id))
             IN  IF user # Anonymous /\ ~commit_ok THEN WithArg(out, CounterFailed) ELSE out

\* routers/notes.py download_note: APPROVED notes only; the NoteDownload row
\* is committed, the download is counted by the background task that follows
\* the response.
download_note(d, t, note_id, user, commit_ok) ==
    LET resp(err) == Resp("download", "note", note_id, user, err, {}, 0, 0)
    IN  IF note_id \notin DOMAIN d.notes \/ d.notes[note_id].status # "APPROVED"
        THEN Out(d, t, resp("NotFound"))
        ELSE LET d1 == [d EXCEPT !.downloads = Append(@, DocUserRow("note", note_id, user))]
                 out == Out(increment_note_stats(d1, note_id, "download", commit_ok), t, resp("OK"))
             IN  IF ~commit_ok THEN WithArg(out, CounterFailed) ELSE out

-----------------------------------------------------------------------------
(* Bookmarks *)

\* PaperService.bookmark_paper: APPROVED papers only; a second call removes
\* the bookmark (arg tells which of the two happened).
bookmark_paper(d, t, paper_id, user) ==
    LET resp(err) == Resp("bookmark", "paper", paper_id, user, err, {}, 0, 0)
        row == DocUserRow("paper", paper_id, user)
    IN  IF paper_id \notin DOMAIN d.papers \/ d.papers[paper_id].status # "APPROVED"
        THEN Out(d, t, resp("NotFound"))
        ELSE IF row \in d.bookmarks
        THEN WithArg(Out([d EXCEPT !.bookmarks = @ \ {row}], t, resp("OK")), "removed")
        ELSE WithArg(Out([d EXCEPT !.bookmarks = @ \cup {row}], t, resp("OK")), "bookmarked")

\* bookmark_note without the status in its query for the note.
bookmark_note_any_status(d, t, note_id, user) ==
    LET resp(err) == Resp("bookmark", "note", note_id, user, err, {}, 0, 0)
        row == DocUserRow("note", note_id, user)
    IN  IF note_id \notin DOMAIN d.notes
        THEN Out(d, t, resp("NotFound"))
        ELSE IF row \in d.bookmarks
        THEN Out(d, t, resp("BadRequest"))
        ELSE WithArg(Out([d EXCEPT !.bookmarks = @ \cup {row}], t, resp("OK")), "bookmarked")

\* routers/notes.py bookmark_note: APPROVED notes only; a second bookmark is
\* a bad request.
bookmark_note(d, t, note_id, user) ==
    LET resp(err) == Resp("bookmark", "note", note_id, user, err, {}, 0, 0)
        row == DocUserRow("note", note_id, user)
    IN  IF note_id \notin DOMAIN d.notes \/ d.notes[note_id].status # "APPROVED"
        THEN Out(d, t, resp("NotFound"))
        ELSE IF row \in d.bookmarks
        THEN Out(d, t, resp("BadRequest"))
        ELSE WithArg(Out([d EXCEPT !.bookmarks = @ \cup {row}], t, resp("OK")), "bookmarked")

-----------------------------------------------------------------------------
(* Activity Recorder *)

ActivityTypes == {"UPLOAD", "DOWNLOAD", "BOOKMARK", "RATING"}

\* PaperService._create_activity_record: add and commit inside try; an
\* exception is logged and rolled back. persist_ok is whether the store
\* accepts the row.
create_activity_record(d, user, type, paper_id, persist_ok) ==
    IF persist_ok
    THEN [d EXCEPT !.activities = Append(@, NewActivity(user, type, "paper", paper_id))]
    ELSE d

\* routers/notes.py log_note_activity: the same for a note.
log_note_activity(d, user, type, note_id, persist_ok) ==
    IF persist_ok
    THEN [d EXCEPT !.activities = Append(@, NewActivity(user, type, "note", note_id))]
    ELSE d

\* A recorder whose failure reaches the handler: the request answers with
\* the error.
recorded_or_raised(out, type, persist_ok) ==
    IF out.resp.err # "OK" \/ out.resp.user = Anonymous \/ out.resp.arg = "removed"
    THEN out
    ELSE IF ~persist_ok
    THEN [out EXCEPT !.resp.err = "OperationalError", !.resp.activity = "failed"]
    ELSE [out EXCEPT !.db = IF out.resp.kind = "paper"
                            THEN create_activity_record(out.db, out.resp.user, type, out.resp.id, TRUE)
                            ELSE log_note_activity(out.db, out.resp.user, type, out.resp.id, TRUE),
                     !.resp.activity = "recorded"]

\* The call of the recorder that follows the commit of an upload, a download
\* by a signed-in user, a new bookmark or a rating: out is what the handler
\* has committed and will return.
recorded(out, type, persist_ok) ==
    IF out.resp.err # "OK" \/ out.resp.user = Anonymous \/ out.resp.arg = "removed"
    THEN out
    ELSE [out EXCEPT !.db = IF out.resp.kind = "paper"
                            THEN create_activity_record(out.db, out.resp.user, type,
                                                        out.resp.id, persist_ok)
                            ELSE log_note_activity(out.db, out.resp.user, type,
                                                   out.resp.id, persist_ok),
                     !.resp.activity = IF persist_ok THEN "recorded" ELSE "failed"]

-----------------------------------------------------------------------------
(* Taxonomy: universities, programs, branches, semesters, subjects *)

\* The five tables from the root down; a row's parent is a row of the table
\* before its own.
Levels == <<"university", "program", "branch", "semester", "subject">>

LevelNo(level) == CHOOSE n \in DOMAIN Levels : Levels[n] = level

NodeIds == 1..MaxNodes

\* A row: its table, its parent (NullId for a university) and the slug (the
\* number, for a semester) that is unique among the rows of one parent.
NewNode(level, parent_id, slug) == [level |-> level, parent_id |-> parent_id, slug |-> slug]

\* query(Table).filter(Table.id == id).first() finds a row.
IsNode(d, level, id) == id \in DOMAIN d.taxonomy /\ d.taxonomy[id].level = level

\* The rows whose parent foreign key (NOT NULL) holds id.
ChildrenOf(d, id) == {c \in DOMAIN d.taxonomy : d.taxonomy[c].parent_id = id}

\* The papers and notes whose subject_id (NOT NULL) holds id.
DocumentsOf(d, id) ==
    {<<"paper", i>> : i \in {x \in DOMAIN d.papers : d.papers[x].subject_id = id}}
        \cup {<<"note", i>> : i \in {x \in DOMAIN d.notes : d.notes[x].subject_id = id}}

NotFoundDetail == "not found"

ExistsDetail == "already exists"

ChildrenDetail == "Cannot delete with existing children"

\* TaxonomyService.create_university .. create_subject: admin only, the parent
\* must exist, the slug must be new under it.
create_node(d, t, level, parent_id, slug, user) ==
    LET resp(id, err) == Resp("create_node", level, id, user, err, {}, 0, 0)
        parent == IF level = "university" THEN NullId ELSE parent_id
    IN  IF user # Admin
        THEN Out(d, t, resp(NullId, "Forbidden"))
        ELSE IF level # "university" /\ ~IsNode(d, Levels[LevelNo(level) - 1], parent_id)
        THEN WithArg(Out(d, t, resp(NullId, "ValidationError")), NotFoundDetail)
        ELSE IF \E c \in DOMAIN d.taxonomy : d.taxonomy[c] = NewNode(level, parent, slug)
        THEN WithArg(Out(d, t, resp(NullId, "ValidationError")), ExistsDetail)
        ELSE LET id == FreshId(NodeIds, DOMAIN d.taxonomy)
             IN  Out([d EXCEPT !.taxonomy = d.taxonomy @@ (id :> NewNode(level, parent, slug))],
                     t, resp(id, "OK"))

\* A delete that removes the row whatever refers to it.
delete_node_unchecked(d, t, level, id, user) ==
    LET resp(err) == Resp("delete_node", level, id, user, err, {}, 0, 0)
    IN  IF user # Admin
        THEN Out(d, t, resp("Forbidden"))
        ELSE IF ~IsNode(d, level, id)
        THEN WithArg(Out(d, t, resp("ValidationError")), NotFoundDetail)
        ELSE Out([d EXCEPT !.taxonomy = Without(d.taxonomy, id)], t, resp("OK"))

\* The body the five deletes share: admin only; db.delete(row) and commit.
\* The relationship to the child rows has no delete cascade, so the flush
\* sets their parent key to NULL, which the NOT NULL column refuses: the
\* IntegrityError is caught, rolled back and raised as ValidationError.
delete_node(d, t, level, id, user) ==
    LET resp(err) == Resp("delete_node", level, id, user, err, {}, 0, 0)
    IN  IF user # Admin
        THEN Out(d, t, resp("Forbidden"))
        ELSE IF ~IsNode(d, level, id)
        THEN WithArg(Out(d, t, resp("ValidationError")), NotFoundDetail)
        ELSE IF ChildrenOf(d, id) # {} \/ (level = "subject" /\ DocumentsOf(d, id) # {})
        THEN WithArg(Out(d, t, resp("ValidationError")), ChildrenDetail)
        ELSE Out([d EXCEPT !.taxonomy = Without(d.taxonomy, id)], t, resp("OK"))

delete_university(d, t, university_id, user) == delete_node(d, t, "university", university_id, user)

delete_program(d, t, program_id, user) == delete_node(d, t, "program", program_id, user)

delete_branch(d, t, branch_id, user) == delete_node(d, t, "branch", branch_id, user)

delete_semester(d, t, semester_id, user) == delete_node(d, t, "semester", semester_id, user)

delete_subject(d, t, subject_id, user) == delete_node(d, t, "subject", subject_id, user)

\* create_paper for an upload that names the Subject row subject_id.
create_paper_in(d, t, uploader, file_hash, subject_id) ==
    LET out == create_paper(d, t, uploader, file_hash, IsNode(d, "subject", subject_id), TRUE)
    IN  IF out.resp.err = "OK"
        THEN [out EXCEPT !.db.papers[out.resp.id].subject_id = subject_id]
        ELSE out

\* create_note for an upload that names the Subject row subject_id.
create_note_in(d, t, uploader, file_hash, subject_id) ==
    LET out == create_note(d, t, uploader, file_hash, IsNode(d, "subject", subject_id))
    IN  IF out.resp.err = "OK"
        THEN [out EXCEPT !.db.notes[out.resp.id].subject_id = subject_id]
        ELSE out

-----------------------------------------------------------------------------
(* The requests the specifications draw from *)

Uploaders == {"u1"}

Reporters == {"u2"}

Viewers == {Anonymous, "u1", Admin}

Raters == {"u1", "u2"}

Reasons == {"spam"}

ModerationActions == {"approve", "reject"}

ModerationNotes == {NoNotes, Plain(TxtOk)}

AdminTexts == {TxtEmpty, TxtReject}

\* The actions the handlers name, and one they do not.
RequestedActions == ResolveActions \cup {"archive"}

SearchFilters == {Filters(u, s) : u \in {NoFilter, "me"}, s \in {NoFilter, "PENDING"}}

Stars == {3, 5}

\* utcnow() is read at most MaxClock times in a behaviour.
ClockOk(out) == out.now <= MaxClock + 1

-----------------------------------------------------------------------------
(* Handlers as actions: one request served from start to end *)

CreatePaper(uploader, file_hash, subject_ok, file_ok) ==
    /\ UsedDocIds(DB) # DocIds
    /\ Finish(create_paper(DB, now, uploader, file_hash, subject_ok, file_ok))

CreateNote(uploader, file_hash, subject_ok) ==
    /\ UsedDocIds(DB) # DocIds
    /\ Finish(create_note(DB, now, uploader, file_hash, subject_ok))

ModeratePaper(paper_id, action, mod_notes) ==
    /\ ClockOk(moderate_paper_admin(DB, now, paper_id, action, mod_notes))
    /\ Finish(moderate_paper_admin(DB, now, paper_id, action, mod_notes))

UpdateNoteStatus(note_id, status, mod_notes) ==
    /\ ClockOk(update_note_status(DB, now, note_id, status, mod_notes))
    /\ Finish(update_note_status(DB, now, note_id, status, mod_notes))

ReportPaper(paper_id, reporter, reason) ==
    /\ UsedReportIds(DB) # ReportIds
    /\ Finish(report_paper(DB, now, paper_id, reporter, reason))

ReportNote(note_id, reporter, reason) ==
    /\ UsedReportIds(DB) # ReportIds
    /\ Finish(report_note(DB, now, note_id, reporter, reason))

ResolveReport(report_id, action, admin_text) ==
    /\ ClockOk(resolve_report(DB, store, now, report_id, action, admin_text))
    /\ Finish(resolve_report(DB, store, now, report_id, action, admin_text))

BulkResolveReports(ids, action, admin_text) ==
    \E order \in BulkOrders(DB, ids) :
        /\ ClockOk(bulk_resolve_reports(DB, store, now, order, action, admin_text))
        /\ Finish(bulk_resolve_reports(DB, store, now, order, action, admin_text))

CreatePaperTagged(uploader, file_hash, tag_names) ==
    /\ UsedDocIds(DB) # DocIds
    /\ Finish(create_paper_tagged(DB, now, uploader, file_hash, tag_names))

CreateNoteTagged(uploader, file_hash, tag_names) ==
    /\ UsedDocIds(DB) # DocIds
    /\ Finish(create_note_tagged(DB, now, uploader, file_hash, tag_names))

UpdatePaper(paper_id, patch, user) ==
    Finish(update_paper(DB, now, paper_id, patch, user))

UpdateNote(note_id, patch, user) ==
    Finish(update_note(DB, now, note_id, patch, user))

SearchPapers(filters, user) ==
    Finish(search_papers_route(DB, now, filters, user))

GetNotes(filters, user) ==
    Finish(get_notes_route(DB, now, filters, user))

RatePaper(paper_id, user, value) ==
    /\ UsedRatingIds(DB) # RatingIds
    /\ ClockOk(rate_paper(DB, now, paper_id, user, value))
    /\ Finish(rate_paper(DB, now, paper_id, user, value))

RateNote(note_id, user, value) ==
    /\ UsedRatingIds(DB) # RatingIds
    /\ ClockOk(rate_note(DB, now, note_id, user, value))
    /\ Finish(rate_note(DB, now, note_id, user, value))

DeleteRating(rating_id, user) ==
    Finish(delete_rating(DB, now, rating_id, user))

RemoveRating(note_id, user) ==
    Finish(remove_rating(DB, now, note_id, user))

DeletePaper(paper_id, user) ==
    Finish(delete_paper(DB, store, now, paper_id, user))

DeleteNote(note_id, user) ==
    Finish(delete_note(DB, store, now, note_id, user))

GetPaperRatingStats(paper_id) ==
    Finish(get_paper_rating_stats(DB, now, paper_id))

\* A page of the paper search; the store picks the order of rows that are
\* equal on the sort column.
SearchPapersPage(filters, user, sort, order, page, page_size) ==
    \E ordering \in SortedOrders(papers, search_papers(DB, filters, user), sort, order) :
        Finish(search_papers_page(DB, now, filters, user, sort, order,
                                  PaginationParams(page, page_size), ordering))

GetNotesPage(filters, user, sort, order, page, per_page) ==
    \E ordering \in SortedOrders(notes, get_notes(DB, filters, user), sort, order) :
        Finish(get_notes_page(DB, now, filters, user, sort, order, page, per_page, ordering))

BookmarkPaper(paper_id, user) ==
    Finish(bookmark_paper(DB, now, paper_id, user))

BookmarkNote(note_id, user) ==
    Finish(bookmark_note(DB, now, note_id, user))

\* A request together with the activity row its handler writes after the
\* commit; persist_ok is whether the store accepts that row.
LoggedCreatePaper(uploader, file_hash, persist_ok) ==
    /\ UsedDocIds(DB) # DocIds
    /\ Len(activities) < MaxActivities
    /\ Finish(recorded(create_paper(DB, now, uploader, file_hash, TRUE, TRUE), "UPLOAD", persist_ok))

LoggedCreateNote(uploader, file_hash, persist_ok) ==
    /\ UsedDocIds(DB) # DocIds
    /\ Len(activities) < MaxActivities
    /\ Finish(recorded(create_note(DB, now, uploader, file_hash, TRUE), "UPLOAD", persist_ok))

LoggedDownloadPaper(paper_id, user, persist_ok) ==
    /\ Len(downloads) < MaxDownloads
    /\ Len(activities) < MaxActivities
    /\ Finish(recorded(download_paper(DB, now, paper_id, user, TRUE), "DOWNLOAD", persist_ok))

LoggedBookmarkPaper(paper_id, user, persist_ok) ==
    /\ Len(activities) < MaxActivities
    /\ Finish(recorded(bookmark_paper(DB, now, paper_id, user), "BOOKMARK", persist_ok))

LoggedBookmarkNote(note_id, user, persist_ok) ==
    /\ Len(activities) < MaxActivities
    /\ Finish(recorded(bookmark_note(DB, now, note_id, user), "BOOKMARK", persist_ok))

LoggedRatePaper(paper_id, user, value, persist_ok) ==
    /\ UsedRatingIds(DB) # RatingIds
    /\ Len(activities) < MaxActivities
    /\ ClockOk(rate_paper(DB, now, paper_id, user, value))
    /\ Finish(recorded(rate_paper(DB, now, paper_id, user, value), "RATING", persist_ok))

CreateNode(level, parent_id, slug, user) ==
    /\ DOMAIN taxonomy # NodeIds
    /\ Finish(create_node(DB, now, level, parent_id, slug, user))

DeleteNode(level, id, user) ==
    Finish(CASE level = "university" -> delete_university(DB, now, id, user)
             [] level = "program" -> delete_program(DB, now, id, user)
             [] level = "branch" -> delete_branch(DB, now, id, user)
             [] level = "semester" -> delete_semester(DB, now, id, user)
             [] level = "subject" -> delete_subject(DB, now, id, user))

CreatePaperIn(uploader, file_hash, subject_id) ==
    /\ UsedDocIds(DB) # DocIds
    /\ Finish(create_paper_in(DB, now, uploader, file_hash, subject_id))

CreateNoteIn(uploader, file_hash, subject_id) ==
    /\ UsedDocIds(DB) # DocIds
    /\ Finish(create_note_in(DB, now, uploader, file_hash, subject_id))

\* A counter is left alone once it has reached MaxCount.
GetPaper(paper_id, user, commit_ok) ==
    /\ paper_id \in DOMAIN papers => papers[paper_id].view_count < MaxCount
    /\ Finish(get_paper(DB, now, paper_id, user, commit_ok))

DownloadPaper(paper_id, user, commit_ok) ==
    /\ paper_id \in DOMAIN papers => papers[paper_id].download_count < MaxCount
    /\ Len(downloads) < MaxDownloads
    /\ Finish(download_paper(DB, now, paper_id, user, commit_ok))

GetNote(note_id, user, commit_ok) ==
    /\ note_id \in DOMAIN notes => notes[note_id].view_count < MaxCount
    /\ Finish(get_note(DB, now, note_id, user, commit_ok))

DownloadNote(note_id, user, commit_ok) ==
    /\ note_id \in DOMAIN notes => notes[note_id].download_count < MaxCount
    /\ Len(downloads) < MaxDownloads
    /\ Finish(download_note(DB, now, note_id, user, commit_ok))

-----------------------------------------------------------------------------
(* Spec: uploads, moderation, and the removal of a reported paper *)

NoReqs == <<>>

Init ==
    /\ store \in Stores
    /\ SetDBInit
    /\ now = 1
    /\ response = NoResp
    /\ reqs = NoReqs

Next ==
    \/ \E u \in Uploaders, h \in Hashes, s \in BOOLEAN, f \in BOOLEAN : CreatePaper(u, h, s, f)
    \/ \E u \in Uploaders, h \in Hashes, s \in BOOLEAN : CreateNote(u, h, s)
    \/ \E p \in DocIds, a \in ModerationActions, m \in ModerationNotes : ModeratePaper(p, a, m)
    \/ \E n \in DocIds, s \in PaperStatus, m \in ModerationNotes : UpdateNoteStatus(n, s, m)
    \/ \E p \in DocIds, r \in Reporters, w \in Reasons : ReportPaper(p, r, w)
    \/ \E r \in ReportIds, x \in AdminTexts : ResolveReport(r, "take_action", x)

Spec == Init /\ [][Next]_vars

-----------------------------------------------------------------------------
(* SearchSpec: what a search returns, on the production store *)

SearchRequests ==
    {<<NoFilters, Anonymous>>, <<NoFilters, "u1">>, <<NoFilters, Admin>>,
     <<Filters("me", NoFilter), "u1">>}

SearchNext ==
    \/ \E u \in Uploaders, h \in Hashes : CreatePaper(u, h, TRUE, TRUE)
    \/ \E u \in Uploaders : CreateNote(u, "h1", TRUE)
    \/ \E p \in DocIds, a \in ModerationActions : ModeratePaper(p, a, NoNotes)
    \/ \E n \in DocIds, s \in {"APPROVED", "REJECTED"} : UpdateNoteStatus(n, s, NoNotes)
    \/ \E p \in DocIds, r \in Reporters, w \in Reasons : ReportPaper(p, r, w)
    \/ \E r \in ReportIds : ResolveReport(r, "remove_paper", TxtEmpty)
    \/ \E q \in SearchRequests : SearchPapers(q[1], q[2])
    \/ \E q \in SearchRequests : GetNotes(q[1], q[2])

SearchInit == Init /\ store = "postgresql"

SearchSpec == SearchInit /\ [][SearchNext]_vars

-----------------------------------------------------------------------------
(* ReportSpec: reports on one paper and one note, and their resolution *)

ReportNext ==
    \/ \E u \in Uploaders : CreatePaper(u, "h1", TRUE, TRUE)
    \/ \E u \in Uploaders : CreateNote(u, "h1", TRUE)
    \/ \E p \in DocIds : ModeratePaper(p, "approve", NoNotes)
    \/ \E n \in DocIds : UpdateNoteStatus(n, "APPROVED", NoNotes)
    \/ \E p \in DocIds, r \in Reporters, w \in Reasons : ReportPaper(p, r, w)
    \/ \E n \in DocIds, r \in Reporters, w \in Reasons : ReportNote(n, r, w)
    \/ \E r \in ReportIds, a \in {"dismiss", "remove_paper"} : ResolveReport(r, a, TxtEmpty)

ReportSpec == Init /\ [][ReportNext]_vars

-----------------------------------------------------------------------------
(* RatingSpec: ratings of one paper and one note, on the production store *)

RatingNext ==
    \/ \E u \in Uploaders : CreatePaper(u, "h1", TRUE, TRUE)
    \/ \E u \in Uploaders : CreateNote(u, "h1", TRUE)
    \/ \E p \in DocIds : ModeratePaper(p, "approve", NoNotes)
    \/ \E n \in DocIds : UpdateNoteStatus(n, "APPROVED", NoNotes)
    \/ \E p \in DocIds, u \in Raters, v \in Stars : RatePaper(p, u, v)
    \/ \E n \in DocIds, u \in Raters, v \in Stars : RateNote(n, u, v)
    \/ \E r \in RatingIds, u \in Raters : DeleteRating(r, u)
    \/ \E n \in DocIds, u \in Raters : RemoveRating(n, u)

RatingInit == Init /\ store = "postgresql"

RatingSpec == RatingInit /\ [][RatingNext]_vars

-----------------------------------------------------------------------------
(* RaceSpec: requests served side by side                                  *)
(*                                                                         *)
(* Each request has a Session of its own (get_db) and, served by another   *)
(* worker process, runs beside the others. A handler is cut between the    *)
(* queries it decides on and the writes it commits: what it read is held   *)
(* in the request, the writes apply to the tables as they are by then.     *)

Slots == 1..NumReqs

\* A request not yet received.
IdleReq ==
    [pc |-> "idle", op |-> "none", id |-> NullId, user |-> NullUser, action |-> "",
     text |-> TxtEmpty, reason |-> "", value |-> 0,
     report |-> NewReport(NullId, NullUser, ""),
     rating |-> [err |-> "OK", row |-> NullId],
     arg |-> "",
     resp |-> NoResp]

\* The handler of request i returns: its writes are committed, the caller
\* has its response.
Answer(i, req, out) ==
    /\ SetDB(out.db)
    /\ now' = out.now
    /\ response' = out.resp
    /\ reqs' = [reqs EXCEPT ![i] = [req EXCEPT !.pc = "done", !.resp = out.resp]]
    /\ UNCHANGED store

\* The handler of request i has read what it decides on.
Proceed(i, req) ==
    /\ reqs' = [reqs EXCEPT ![i] = req]
    /\ UNCHANGED <<store, papers, notes, reports, noteReports, ratings, noteRatings,
                   notifications, taxonomy, downloads, bookmarks, activities, now,
                   response>>

\* The tables as a session sees them that loaded this report row earlier.
WithReport(d, report_id, row) == [d EXCEPT !.reports[report_id] = row]

\* An approved paper of u1, as upload and approval leave it; a report of it
\* by u2 and a rating of it by u2, as report_paper and rate_paper leave them.
SeedPaper == [NewDoc("u1", "h1") EXCEPT !.status = "APPROVED", !.approved_at = 1]

SeedReport == NewReport(1, "u2", "spam")

SeedRating == NewRating("u2", 1, 3)

\* utcnow() is read at most MaxClock times after RaceInit.
RaceClockOk(out) == out.now <= SeedPaper.approved_at + 1 + MaxClock

\* report_paper: the queries for the paper and for an OPEN report.
ReportBegin(i, paper_id, reporter, reason) ==
    /\ reqs[i].pc = "idle"
    /\ LET req == [reqs[i] EXCEPT !.op = "report", !.id = paper_id, !.user = reporter,
                                  !.reason = reason]
       IN  IF report_paper_check(DB, paper_id, reporter) = "OK"
           THEN Proceed(i, [req EXCEPT !.pc = "report_insert"])
           ELSE Answer(i, req, report_paper(DB, now, paper_id, reporter, reason))

\* report_paper: db.add(new_report); db.commit()
ReportCommit(i) ==
    /\ reqs[i].pc = "report_insert"
    /\ UsedReportIds(DB) # ReportIds
    /\ Answer(i, reqs[i],
              report_paper_insert(DB, now, reqs[i].id, reqs[i].user, reqs[i].reason))

\* resolve_report: the query for the report and the test of its status.
ResolveBegin(i, report_id, action, admin_text) ==
    /\ reqs[i].pc = "idle"
    /\ LET req == [reqs[i] EXCEPT !.op = "resolve", !.id = report_id, !.user = Admin,
                                  !.action = action, !.text = admin_text]
       IN  IF report_id \in DOMAIN reports /\ reports[report_id].status = "OPEN"
           THEN Proceed(i, [req EXCEPT !.pc = "resolve_write",
                                       !.report = reports[report_id]])
           ELSE Answer(i, req, resolve_report(DB, store, now, report_id, action, admin_text))

\* resolve_report from "Update report status" on: the row loaded is closed,
\* the action applied, the commits made.
ResolveWrite(i) ==
    /\ reqs[i].pc = "resolve_write"
    /\ LET out == resolve_report(WithReport(DB, reqs[i].id, reqs[i].report), store, now,
                                 reqs[i].id, reqs[i].action, reqs[i].text)
       IN  /\ RaceClockOk(out)
           /\ Answer(i, reqs[i], out)

\* bulk_resolve_reports with one id: the query for the rows. A row read
\* CLOSED is passed over by the loop, which then writes nothing.
BulkBegin(i, report_id, action, admin_text) ==
    /\ reqs[i].pc = "idle"
    /\ LET req == [reqs[i] EXCEPT !.op = "bulk_resolve", !.id = report_id, !.user = Admin,
                                  !.action = action, !.text = admin_text]
           order == CHOOSE o \in BulkOrders(DB, {report_id}) : TRUE
       IN  IF report_id \in DOMAIN reports /\ reports[report_id].status = "OPEN"
           THEN Proceed(i, [req EXCEPT !.pc = "bulk_write",
                                       !.report = reports[report_id]])
           ELSE Answer(i, req, bulk_resolve_reports(DB, store, now, order, action, admin_text))

\* bulk_resolve_reports: the loop over the row loaded and the final commit.
BulkWrite(i) ==
    /\ reqs[i].pc = "bulk_write"
    /\ LET out == bulk_resolve_reports(WithReport(DB, reqs[i].id, reqs[i].report), store, now,
                                       <<reqs[i].id>>, reqs[i].action, reqs[i].text)
       IN  /\ RaceClockOk(out)
           /\ Answer(i, reqs[i], out)

\* rate_paper: the queries for the paper and for the user's rating of it.
RateBegin(i, paper_id, user, value) ==
    /\ reqs[i].pc = "idle"
    /\ LET req == [reqs[i] EXCEPT !.op = "rate", !.id = paper_id, !.user = user,
                                  !.value = value]
           read == rate_paper_read(DB, paper_id, user)
       IN  IF read.err = "OK"
           THEN Proceed(i, [req EXCEPT !.pc = "rate_write", !.rating = read])
           ELSE Answer(i, req, rate_paper_write(DB, now, read, paper_id, user, value))

\* rate_paper: the UPDATE or the INSERT, and db.commit()
RateWrite(i) ==
    /\ reqs[i].pc = "rate_write"
    /\ reqs[i].rating.row = NullId => UsedRatingIds(DB) # RatingIds
    /\ LET out == rate_paper_write(DB, now, reqs[i].rating, reqs[i].id, reqs[i].user,
                                   reqs[i].value)
       IN  /\ RaceClockOk(out)
           /\ Answer(i, reqs[i], out)

\* download_paper: the query for the paper and the test of its status.
DownloadBegin(i, paper_id, user) ==
    /\ reqs[i].pc = "idle"
    /\ LET req == [reqs[i] EXCEPT !.op = "download", !.id = paper_id, !.user = user]
           read == download_paper_read(DB, paper_id)
       IN  IF read.err = "OK"
           THEN Proceed(i, [req EXCEPT !.pc = "download_write", !.value = read.count])
           ELSE Answer(i, req, download_paper_write(DB, now, read, paper_id, user))

\* download_paper: the Download row, the counter, db.commit(), and the
\* activity record of a signed-in user.
DownloadWrite(i, persist_ok) ==
    /\ reqs[i].pc = "download_write"
    /\ Len(downloads) < MaxDownloads
    /\ Len(activities) < MaxActivities
    /\ Answer(i, reqs[i],
              recorded(download_paper_write(DB, now, [err |-> "OK", count |-> reqs[i].value],
                                            reqs[i].id, reqs[i].user),
                       "DOWNLOAD", persist_ok))

RaceInit ==
    /\ store \in Stores
    /\ papers = (1 :> SeedPaper)
    /\ notes = EmptyDB.notes
    /\ reports \in {EmptyDB.reports, (1 :> SeedReport)}
    /\ noteReports = EmptyDB.noteReports
    /\ ratings \in {EmptyDB.ratings, (1 :> SeedRating)}
    /\ noteRatings = EmptyDB.noteRatings
    /\ notifications = EmptyDB.notifications
    /\ taxonomy = EmptyDB.taxonomy
    /\ downloads = EmptyDB.downloads
    /\ bookmarks = EmptyDB.bookmarks
    /\ activities = EmptyDB.activities
    /\ now = SeedPaper.approved_at + 1
    /\ response = NoResp
    /\ reqs = [i \in Slots |-> IdleReq]

RaceNext ==
    \E i \in Slots :
        \/ \E p \in DocIds, r \in Reporters, w \in Reasons : ReportBegin(i, p, r, w)
        \/ ReportCommit(i)
        \/ \E r \in ReportIds, a \in {"dismiss", "remove_paper"} : ResolveBegin(i, r, a, TxtEmpty)
        \/ ResolveWrite(i)
        \/ \E r \in ReportIds : BulkBegin(i, r, "remove_paper", TxtEmpty)
        \/ BulkWrite(i)
        \/ \E p \in DocIds, u \in Raters, v \in Stars : RateBegin(i, p, u, v)
        \/ RateWrite(i)

RaceSpec == RaceInit /\ [][RaceNext]_vars

-----------------------------------------------------------------------------
(* BulkSpec: reports of a paper and of a note, resolved one by one or in bulk *)

BulkNext ==
    \/ \E u \in Uploaders : CreatePaper(u, "h1", TRUE, TRUE)
    \/ \E u \in Uploaders : CreateNote(u, "h1", TRUE)
    \/ \E p \in DocIds, r \in Reporters, w \in Reasons : ReportPaper(p, r, w)
    \/ \E n \in DocIds, r \in Reporters, w \in Reasons : ReportNote(n, r, w)
    \/ \E r \in ReportIds, a \in {"dismiss", "remove_paper"} : ResolveReport(r, a, TxtEmpty)
    \/ \E ids \in SUBSET ReportIds \ {{}}, a \in {"dismiss", "remove_paper", "warn_user"} :
          BulkResolveReports(ids, a, TxtEmpty)

BulkSpec == Init /\ [][BulkNext]_vars

-----------------------------------------------------------------------------
(* DeleteSpec: documents moderated and deleted *)

Requesters == Students \cup {Admin}

DeleteNext ==
    \/ \E u \in Uploaders, h \in Hashes : CreatePaper(u, h, TRUE, TRUE)
    \/ \E u \in Uploaders, h \in Hashes : CreateNote(u, h, TRUE)
    \/ \E p \in DocIds, a \in ModerationActions : ModeratePaper(p, a, NoNotes)
    \/ \E n \in DocIds, s \in {"APPROVED", "REJECTED"} : UpdateNoteStatus(n, s, NoNotes)
    \/ \E p \in DocIds, u \in Requesters : DeletePaper(p, u)
    \/ \E n \in DocIds, u \in Requesters : DeleteNote(n, u)

DeleteSpec == Init /\ [][DeleteNext]_vars

-----------------------------------------------------------------------------
(* StatsSpec: ratings of papers and the statistics read from them *)

StatsNext ==
    \/ \E u \in Uploaders, h \in Hashes : CreatePaper(u, h, TRUE, TRUE)
    \/ \E p \in DocIds : ModeratePaper(p, "approve", NoNotes)
    \/ \E p \in DocIds, u \in Students, v \in RatingValues : RatePaper(p, u, v)
    \/ \E r \in RatingIds, u \in Students : DeleteRating(r, u)
    \/ \E p \in DocIds : GetPaperRatingStats(p)

StatsSpec == Init /\ [][StatsNext]_vars

-----------------------------------------------------------------------------
(* CreateRaceSpec: uploads served side by side *)

\* create_paper: the query for a paper with the hash, the Subject lookup and
\* the storage check (both found here).
CreatePaperBegin(i, uploader, file_hash) ==
    /\ reqs[i].pc = "idle"
    /\ LET req == [reqs[i] EXCEPT !.op = "create", !.user = uploader, !.arg = file_hash]
       IN  IF \E p \in DOMAIN papers : papers[p].file_hash = file_hash
           THEN Answer(i, req, create_paper(DB, now, uploader, file_hash, TRUE, TRUE))
           ELSE Proceed(i, [req EXCEPT !.pc = "create_insert"])

\* create_paper: db.add(new_paper); db.flush(); db.commit()
CreatePaperCommit(i) ==
    /\ reqs[i].pc = "create_insert"
    /\ UsedDocIds(DB) # DocIds
    /\ Answer(i, reqs[i], create_paper_insert(DB, now, reqs[i].user, reqs[i].arg))

\* create_note reads nothing of the notes before its INSERT: one step.
CreateNoteRequest(i, uploader, file_hash) ==
    /\ reqs[i].pc = "idle"
    /\ UsedDocIds(DB) # DocIds
    /\ Answer(i, [reqs[i] EXCEPT !.op = "create", !.user = uploader, !.arg = file_hash],
              create_note(DB, now, uploader, file_hash, TRUE))

CreateRaceInit ==
    /\ store \in Stores
    /\ SetDBInit
    /\ now = 1
    /\ response = NoResp
    /\ reqs = [i \in Slots |-> IdleReq]

CreateRaceNext ==
    \E i \in Slots :
        \/ \E u \in Students, h \in Hashes : CreatePaperBegin(i, u, h)
        \/ CreatePaperCommit(i)
        \/ \E u \in Students, h \in Hashes : CreateNoteRequest(i, u, h)

CreateRaceSpec == CreateRaceInit /\ [][CreateRaceNext]_vars

-----------------------------------------------------------------------------
(* Properties *)

Kinds == {"paper", "note"}

\* The table of documents, of reports and of ratings of a kind.
Docs(k) == IF k = "paper" THEN papers ELSE notes

ReportsOf(k) == IF k = "paper" THEN reports ELSE noteReports

RatingsOf(k) == IF k = "paper" THEN ratings ELSE noteRatings

\* The step is the handler of op answering about target id of kind k.
Served(op, k, id) ==
    /\ response'.op = op
    /\ response'.kind = k
    /\ response'.id = id

\* C1: for papers (moderate_paper) and notes (update_note_status) alike, a
\* moderation that approves a PENDING document leaves it APPROVED with a
\* non-null approved_at, and every moderation without force of a document
\* that has been approved fails with InvalidTransition and leaves its
\* status, approved_at and moderation notes as they were.
C1_ApproveThenInvalidTransition ==
    [][\A k \in Kinds, id \in DocIds :
         (Served("moderate", k, id) /\ id \in DOMAIN Docs(k)) =>
            /\ (Docs(k)[id].status = "PENDING" /\ response'.arg \in {"approve", "APPROVED"}) =>
                  /\ Docs(k)'[id].status = "APPROVED"
                  /\ Docs(k)'[id].approved_at # NullTime
            /\ Docs(k)[id].status = "APPROVED" =>
                  /\ response'.err = "InvalidTransition"
                  /\ Docs(k)'[id] = Docs(k)[id]]_vars

\* C2: a search without filters by an anonymous or non-admin viewer returns
\* only documents whose status is APPROVED, whatever uploads, moderations
\* and report resolutions came before.
C2_SearchReturnsOnlyApproved ==
    (response.op = "search" /\ response.filters = NoFilters /\ response.user # Admin) =>
        \A i \in response.items :
            /\ i \in DOMAIN Docs(response.kind)
            /\ Docs(response.kind)[i].status = "APPROVED"

\* An anonymous search without filters that returned a paper and left out
\* another one, which is not APPROVED.
C2_Witness ==
    /\ response.op = "search"
    /\ response.kind = "paper"
    /\ response.filters = NoFilters
    /\ response.user = Anonymous
    /\ response.items # {}
    /\ \E i \in DOMAIN papers \ response.items : papers[i].status \in {"PENDING", "REJECTED"}

\* C3: resolving an OPEN report with the removal action, its document being
\* PENDING or APPROVED, leaves the document REJECTED and attempts exactly
\* one notification dispatch to the uploader, for paper reports and note
\* reports alike.
C3_RemoveRejectsAndNotifiesOnce ==
    [][\A k \in Kinds, r \in ReportIds :
         (/\ Served("resolve", k, r)
          /\ response'.arg = "remove_paper"
          /\ r \in DOMAIN ReportsOf(k)
          /\ ReportsOf(k)[r].status = "OPEN"
          /\ ReportsOf(k)[r].doc_id \in DOMAIN Docs(k)
          /\ Docs(k)[ReportsOf(k)[r].doc_id].status \in {"PENDING", "APPROVED"}) =>
            /\ Docs(k)'[ReportsOf(k)[r].doc_id].status = "REJECTED"
            /\ response'.notified = 1]_vars

\* C4: a REJECTED document stays REJECTED whatever is done, and an APPROVED
\* document changes status only to REJECTED and only in a report
\* resolution.
C4_RejectedIsTerminal ==
    [][\A k \in Kinds, id \in DocIds :
         id \in DOMAIN Docs(k) =>
            /\ Docs(k)[id].status = "REJECTED" => Docs(k)'[id].status = "REJECTED"
            /\ (Docs(k)[id].status = "APPROVED" /\ Docs(k)'[id].status # "APPROVED") =>
                  /\ Docs(k)'[id].status = "REJECTED"
                  /\ response'.op \in {"resolve", "bulk_resolve"}]_vars

\* C5: an otherwise valid create whose file_hash a document of the same kind
\* holds fails with DuplicateContent and leaves the documents of that kind
\* as they were; file_hash stays unique among the documents of one kind.
C5_DuplicateContent ==
    [][\A k \in Kinds :
         /\ (/\ response'.op = "create"
             /\ response'.kind = k
             /\ response'.err # "ValidationError"
             /\ \E i \in DOMAIN Docs(k) : Docs(k)[i].file_hash = response'.arg) =>
               /\ response'.err = "DuplicateContent"
               /\ Docs(k)' = Docs(k)
         /\ \A i, j \in DOMAIN Docs(k)' :
               Docs(k)'[i].file_hash = Docs(k)'[j].file_hash => i = j]_vars

\* C6: each (user, document) pair has at most one rating; a successful rate
\* leaves the pair's rating at the value given; a rate by a user who has a
\* rating of the document, when it is not refused for the document or the
\* user, succeeds and changes that row without adding one.
C6_OneRatingPerUserAndDocument ==
    [][\A k \in Kinds :
         /\ \A u \in Raters, d \in DocIds :
               Cardinality(existing_rating(RatingsOf(k)', u, d)) <= 1
         /\ (response'.op = "rate" /\ response'.kind = k /\ response'.err = "OK") =>
               /\ existing_rating(RatingsOf(k)', response'.user, response'.id) # {}
               /\ \A r \in existing_rating(RatingsOf(k)', response'.user, response'.id) :
                     RatingsOf(k)'[r].rating = response'.n
         /\ (/\ response'.op = "rate"
             /\ response'.kind = k
             /\ response'.err \notin {"NotFound", "OwnPaper"}
             /\ existing_rating(RatingsOf(k), response'.user, response'.id) # {}) =>
               /\ response'.err = "OK"
               /\ DOMAIN RatingsOf(k)' = DOMAIN RatingsOf(k)]_vars

\* A paper rated a second time by the same user: the one row of the pair
\* holds the second value and the time of the update.
C6_Witness ==
    /\ response.op = "rate"
    /\ response.kind = "paper"
    /\ response.err = "OK"
    /\ response.n = 5
    /\ \E r \in DOMAIN ratings :
          /\ ratings[r].user_id = response.user
          /\ ratings[r].doc_id = response.id
          /\ ratings[r].rating = 5
          /\ ratings[r].updated_at # NullTime

\* C7: in every state, whatever the interleaving of report requests, a
\* reporter has at most one OPEN report of a document.
C7_AtMostOneOpenReport ==
    \A k \in Kinds, u \in Reporters, d \in DocIds :
        Cardinality(existing_report(ReportsOf(k), d, u)) <= 1

\* C8: a report by a reporter who holds an OPEN report of the document fails
\* with DuplicateOpenReport and leaves the reports as they were.
C8_DuplicateOpenReportRefused ==
    [][\A k \in Kinds :
         (/\ response'.op = "report"
          /\ response'.kind = k
          /\ existing_report(ReportsOf(k), response'.id, response'.user) # {}) =>
            /\ response'.err = "DuplicateOpenReport"
            /\ reports' = reports
            /\ noteReports' = noteReports]_vars

\* A second report of a paper was refused while the first is OPEN and an id
\* for a new report is free.
C8_Witness ==
    /\ response.op = "report"
    /\ response.kind = "paper"
    /\ response.err = "DuplicateOpenReport"
    /\ existing_report(reports, response.id, response.user) # {}
    /\ UsedReportIds(DB) # ReportIds

\* The action and text of a resolution force the paper to REJECTED.
ForcesRejection(action, admin_text) ==
    \/ action = "remove_paper"
    \/ action = "take_action" /\ SuggestsRejection(admin_text)

\* The answered resolutions of report r that applied the forced rejection.
AppliedRejection(r) ==
    {i \in Slots :
        /\ reqs[i].pc = "done"
        /\ reqs[i].op \in {"resolve", "bulk_resolve"}
        /\ reqs[i].id = r
        /\ reqs[i].resp.err = "OK"
        /\ reqs[i].op = "bulk_resolve" => reqs[i].resp.n > 0
        /\ ForcesRejection(reqs[i].action, reqs[i].text)}

\* The answered resolutions of report r that dispatched a notification.
Dispatched(r) ==
    {i \in Slots :
        /\ reqs[i].pc = "done"
        /\ reqs[i].op \in {"resolve", "bulk_resolve"}
        /\ reqs[i].id = r
        /\ reqs[i].resp.notified > 0}

\* C9: of the resolution requests on one report, whatever their
\* interleaving, at most one applies the forced rejection and at most one
\* dispatches a notification.
C9_ResolutionAppliedOnce ==
    \A r \in ReportIds :
        /\ Cardinality(AppliedRejection(r)) <= 1
        /\ Cardinality(Dispatched(r)) <= 1

\* C10: whatever the interleaving of rate requests of one user on one
\* paper, the pair never has two rows in ratings.
C10_ConcurrentRatesOneRow ==
    \A u \in Raters, d \in DocIds :
        \A i, j \in DOMAIN ratings :
            (/\ ratings[i].user_id = u /\ ratings[i].doc_id = d
             /\ ratings[j].user_id = u /\ ratings[j].doc_id = d) => i = j

\* Two rate requests of one user on one paper both found no rating; one
\* inserted its row, the other was refused by the unique constraint.
C10_Witness ==
    \E i, j \in Slots :
        /\ i # j
        /\ reqs[i].op = "rate" /\ reqs[j].op = "rate"
        /\ reqs[i].user = reqs[j].user /\ reqs[i].id = reqs[j].id
        /\ reqs[i].pc = "done" /\ reqs[i].resp.err = "OK"
        /\ reqs[j].pc = "done" /\ reqs[j].resp.err = "IntegrityError"
        /\ Cardinality(existing_rating(ratings, reqs[i].user, reqs[i].id)) = 1

\* The answered create requests of kind k that carried hash h.
Created(k, h) ==
    {i \in Slots :
        /\ reqs[i].pc = "done"
        /\ reqs[i].op = "create"
        /\ reqs[i].resp.kind = k
        /\ reqs[i].arg = h}

\* C11: of the create requests of one kind carrying one file_hash, whatever
\* their interleaving, at most one succeeds, at most one document of the
\* kind holds the hash, and every other request is answered DuplicateContent.
C11_ConcurrentCreatesOneDocument ==
    \A k \in Kinds, h \in Hashes :
        /\ Cardinality({d \in DOMAIN Docs(k) : Docs(k)[d].file_hash = h}) <= 1
        /\ Cardinality({i \in Created(k, h) : reqs[i].resp.err = "OK"}) <= 1
        /\ \A i \in Created(k, h) : reqs[i].resp.err \in {"OK", "DuplicateContent"}

\* The row of report r, of a paper or of a note.
ReportRow(r) == IF r \in DOMAIN reports THEN reports[r] ELSE noteReports[r]

AllReportIds == DOMAIN reports \cup DOMAIN noteReports

C13_ClosedReportStaysClosed ==
    [][/\ \A r \in AllReportIds :
            (ReportRow(r).status = "CLOSED" /\ r \in AllReportIds') =>
                ReportRow(r)'.status = "CLOSED"
       /\ (/\ response'.op = "resolve"
           /\ response'.id \in AllReportIds
           /\ ReportRow(response'.id).status = "CLOSED") =>
             /\ response'.err = "AlreadyResolved"
             /\ response'.notified = 0
             /\ UNCHANGED <<papers, notes, reports, noteReports, notifications>>]_vars

\* A resolution with the remove action was refused on a report that is
\* CLOSED, while the paper reported is not REJECTED.
C13_Witness ==
    /\ response.op = "resolve"
    /\ response.err = "AlreadyResolved"
    /\ response.arg = "remove_paper"
    /\ response.id \in DOMAIN reports
    /\ reports[response.id].status = "CLOSED"
    /\ reports[response.id].doc_id \in DOMAIN papers
    /\ papers[reports[response.id].doc_id].status # "REJECTED"

\* C14: a delete of a stored document succeeds and removes it when the
\* requester is an admin, or is the uploader while the document is PENDING;
\* from any other requester it fails with Forbidden and the document stays.
C14_DeleteByAdminOrPendingUploader ==
    [][\A k \in Kinds :
         (/\ response'.op = "delete"
          /\ response'.kind = k
          /\ response'.id \in DOMAIN Docs(k)) =>
            LET doc == Docs(k)[response'.id]
                allowed == \/ response'.user = Admin
                           \/ /\ response'.user = doc.uploader_id
                              /\ doc.status = "PENDING"
            IN  IF allowed
                THEN response'.err = "OK" /\ response'.id \notin DOMAIN Docs(k)'
                ELSE response'.err = "Forbidden" /\ Docs(k)' = Docs(k)]_vars

\* C15: a rate of an APPROVED document by its uploader is refused as the
\* uploader's own document (the Forbidden of self-rating) and leaves the
\* ratings of the kind as they were.
C15_SelfRatingRefused ==
    [][\A k \in Kinds :
         (/\ response'.op = "rate"
          /\ response'.kind = k
          /\ response'.id \in DOMAIN Docs(k)
          /\ Docs(k)[response'.id].status = "APPROVED"
          /\ Docs(k)[response'.id].uploader_id = response'.user) =>
            /\ response'.err = "OwnPaper"
            /\ RatingsOf(k)' = RatingsOf(k)]_vars

\* C16: the statistics a handler returns for a paper count the ratings of
\* the paper, and their average is null exactly when that count is 0.
C16_StatsCountAndNullAverage ==
    (/\ response.op \in {"rating_stats", "delete_rating"}
     /\ response.kind = "paper"
     /\ response.err = "OK") =>
        /\ response.stats.total_ratings = Cardinality(RowsOf(ratings, response.id))
        /\ response.stats.average_rating.null <=> response.stats.total_ratings = 0

-----------------------------------------------------------------------------
(* CounterSpec: documents fetched and downloaded, the counter update         *)
(* accepted or refused by the database                                       *)

CounterNext ==
    \/ \E u \in Uploaders, h \in Hashes : CreatePaper(u, h, TRUE, TRUE)
    \/ \E u \in Uploaders, h \in Hashes : CreateNote(u, h, TRUE)
    \/ \E p \in DocIds : ModeratePaper(p, "approve", NoNotes)
    \/ \E n \in DocIds : UpdateNoteStatus(n, "APPROVED", NoNotes)
    \/ \E p \in DocIds, u \in Viewers, ok \in BOOLEAN : GetPaper(p, u, ok)
    \/ \E p \in DocIds, ok \in BOOLEAN : DownloadPaper(p, "u1", ok)
    \/ \E n \in DocIds, u \in Viewers, ok \in BOOLEAN : GetNote(n, u, ok)
    \/ \E n \in DocIds, ok \in BOOLEAN : DownloadNote(n, "u1", ok)

CounterSpec == Init /\ [][CounterNext]_vars

\* C20: a failure while incrementing a view or download counter is never
\* propagated to the caller: the fetch or download it belongs to still
\* succeeds, and the documents are left as they were.
C20_CounterFailureNotPropagated ==
    [][response'.op \in {"get", "download"} /\ response'.arg = CounterFailed
          => /\ response'.err = "OK"
             /\ \A k \in Kinds : Docs(k)' = Docs(k)]_vars

-----------------------------------------------------------------------------
(* PageSpec: approved documents, downloaded some number of times, listed     *)
(* page by page                                                              *)

PageSorts == {"download_count"}

NoteSorts == {"download_count", "view_count"}

SortOrders == {"asc", "desc"}

PageNumbers == {1, 2}

\* Page sizes: one row a page, and the largest the route accepts, which puts
\* every row on page 1.
PageSizes == {1, 100}

PageNext ==
    \/ \E h \in Hashes : CreatePaper("u1", h, TRUE, TRUE)
    \/ \E h \in Hashes : CreateNote("u1", h, TRUE)
    \/ \E p \in DocIds : ModeratePaper(p, "approve", NoNotes)
    \/ \E n \in DocIds : UpdateNoteStatus(n, "APPROVED", NoNotes)
    \/ \E p \in DocIds : DownloadPaper(p, "u2", TRUE)
    \/ \E n \in DocIds : DownloadNote(n, "u2", TRUE)
    \/ \E s \in PageSorts, o \in SortOrders, p \in PageNumbers, n \in PageSizes :
           SearchPapersPage(NoFilters, Anonymous, s, o, p, n)
    \/ \E s \in NoteSorts, o \in SortOrders, p \in PageNumbers, n \in PageSizes :
           GetNotesPage(NoFilters, Anonymous, s, o, p, n)

PageSpec == Init /\ [][PageNext]_vars

\* The listing a response gives when nothing is cut off: page 1 with every
\* matching row on it.
Unpaginated(r) ==
    r.op = "search_page" /\ r.page.page = 1 /\ r.n <= r.page.page_size

\* C17: a page p of size n holds exactly items (p-1)*n+1 .. p*n of the
\* sequence the same search, with the same filters, sort and order, returns
\* without pagination, and its total is the length of that sequence. Stated
\* of a paged search that follows the unpaginated one on unchanged data.
C17_PageIsWindowOfUnpaginated ==
    [][/\ Unpaginated(response)
       /\ response'.op = "search_page"
       /\ response'.kind = response.kind /\ response'.user = response.user
       /\ response'.filters = response.filters
       /\ response'.page.sort = response.page.sort
       /\ response'.page.order = response.page.order
       => /\ response'.page.rows =
               OffsetLimit(response.page.rows,
                           (response'.page.page - 1) * response'.page.page_size,
                           response'.page.page_size)
          /\ response'.n = Len(response.page.rows)]_vars

-----------------------------------------------------------------------------
(* TaxonomySpec: the tree built and taken down, documents filed under its    *)
(* subjects                                                                  *)

\* One name for a node above the subjects, two for a subject.
Slugs(level) == IF level = "subject" THEN {"a", "b"} ELSE {"a"}

TaxonomyNext ==
    \/ \E l \in Range(Levels), p \in NodeIds : \E s \in Slugs(l) : CreateNode(l, p, s, Admin)
    \/ \E l \in Range(Levels), n \in NodeIds, u \in {Admin, "u1"} : DeleteNode(l, n, u)
    \/ \E n \in NodeIds : CreatePaperIn("u1", "h1", n)
    \/ \E n \in NodeIds : CreateNoteIn("u1", "h1", n)
    \/ \E p \in DocIds : DeletePaper(p, Admin)

TaxonomySpec == Init /\ [][TaxonomyNext]_vars

\* The refusal the deletes raise for a row that still has rows under it.
Conflict(r) == r.err = "ValidationError" /\ r.arg = ChildrenDetail

\* C18: deleting a university, program, branch or semester that has at least
\* one child fails with Conflict and leaves the node and all its children in
\* place; deleting a subject that has no documents attached succeeds and
\* removes it.
C18_DeleteWithChildrenConflicts ==
    [][(/\ response'.op = "delete_node"
        /\ response'.user = Admin
        /\ IsNode(DB, response'.kind, response'.id)) =>
          /\ (response'.kind # "subject" /\ ChildrenOf(DB, response'.id) # {}) =>
                Conflict(response') /\ taxonomy' = taxonomy
          /\ (response'.kind = "subject" /\ DocumentsOf(DB, response'.id) = {}) =>
                response'.err = "OK" /\ response'.id \notin DOMAIN taxonomy']_vars

\* The delete of a node above the subjects that has a child was refused.
C18_Witness ==
    /\ response.op = "delete_node"
    /\ response.kind \in {"university", "program", "branch", "semester"}
    /\ Conflict(response)
    /\ ChildrenOf(DB, response.id) # {}

\* A resolution with action remove_paper or warn_user that has called the
\* notification service.
NotifyTried(r) ==
    /\ r.op \in {"resolve", "bulk_resolve"}
    /\ r.arg \in {"remove_paper", "warn_user"}
    /\ r.notified > 0

\* The reports a resolution was asked to close: the one it names, or those
\* of its set that were OPEN.
ToClose(r) ==
    IF r.op = "resolve" THEN {r.id} \cap AllReportIds
    ELSE {x \in r.items \cap AllReportIds : ReportRow(x).status = "OPEN"}

\* C19: a resolution (single or bulk, action remove_paper or warn_user) that
\* calls the notification service returns success and leaves its reports
\* CLOSED, whether the store accepts the notification or refuses it: a
\* failure of the call is caught where it is made.
C19_NotifyFailureCaught ==
    [][NotifyTried(response') =>
         /\ response'.err = "OK"
         /\ \A x \in ToClose(response') : ReportRow(x)'.status = "CLOSED"]_vars

-----------------------------------------------------------------------------
(* ActivitySpec: uploads, downloads, bookmarks and ratings with the activity *)
(* row each of them writes, accepted or refused by the store                 *)

ActivityNext ==
    \/ \E ok \in BOOLEAN : LoggedCreatePaper("u1", "h1", ok)
    \/ \E ok \in BOOLEAN : LoggedCreateNote("u1", "h1", ok)
    \/ ModeratePaper(1, "approve", NoNotes)
    \/ UpdateNoteStatus(2, "APPROVED", NoNotes)
    \/ \E u \in {Anonymous, "u2"}, ok \in BOOLEAN : LoggedDownloadPaper(1, u, ok)
    \/ \E ok \in BOOLEAN : LoggedBookmarkPaper(1, "u2", ok)
    \/ \E ok \in BOOLEAN : LoggedBookmarkNote(2, "u2", ok)
    \/ \E ok \in BOOLEAN : LoggedRatePaper(1, "u2", 3, ok)

ActivityInit == Init /\ store = "postgresql"

ActivitySpec == ActivityInit /\ [][ActivityNext]_vars

\* What an upload, download, bookmark or rating has committed is in the
\* tables after the step.
PrimaryEffectKept ==
    \E k \in Kinds, i \in DocIds :
        /\ response'.kind = k
        /\ response'.id = i
        /\ CASE response'.op = "create" -> i \in DOMAIN Docs(k)' /\ i \notin DOMAIN Docs(k)
             [] response'.op = "download" ->
                  /\ downloads' = Append(downloads, DocUserRow(k, i, response'.user))
                  /\ Docs(k)'[i].download_count = Docs(k)[i].download_count + 1
             [] response'.op = "bookmark" ->
                  /\ DocUserRow(k, i, response'.user) \in bookmarks'
                  /\ DocUserRow(k, i, response'.user) \notin bookmarks
             [] response'.op = "rate" ->
                  \E u \in Students : u = response'.user /\ existing_rating(RatingsOf(k)', u, i) # {}
             [] OTHER -> FALSE

-----------------------------------------------------------------------------
(* ResolveSpec: reports of one paper and one note, resolved singly with each *)
(* action and each admin text, and in bulk as one-element sets               *)

ResolveNext ==
    \/ CreatePaper("u1", "h1", TRUE, TRUE)
    \/ CreateNote("u1", "h1", TRUE)
    \/ \E p \in DocIds : ModeratePaper(p, "approve", NoNotes)
    \/ \E n \in DocIds : UpdateNoteStatus(n, "APPROVED", NoNotes)
    \/ \E p \in DocIds : ReportPaper(p, "u2", "spam")
    \/ \E n \in DocIds : ReportNote(n, "u2", "spam")
    \/ \E r \in ReportIds, a \in ResolveActions, x \in AdminTexts : ResolveReport(r, a, x)
    \/ \E r \in ReportIds, a \in ResolveActions, x \in AdminTexts : BulkResolveReports({r}, a, x)

ResolveSpec == Init /\ [][ResolveNext]_vars

\* C22: resolve_report, asked for any of its four actions on an OPEN report
\* of a paper or of a note, leaves the report CLOSED with resolved_by_id and
\* resolved_at set.
C22_ResolveClosesAndStamps ==
    [][\A r \in AllReportIds :
           (/\ response'.op = "resolve"
            /\ response'.id = r
            /\ response'.arg \in ResolveActions
            /\ ReportRow(r).status = "OPEN")
           => /\ ReportRow(r)'.status = "CLOSED"
              /\ ReportRow(r)'.resolved_by_id = Admin
              /\ ReportRow(r)'.resolved_at # NullTime]_vars

\* C23: resolve_report with take_action on an OPEN report leaves the
\* reported document REJECTED when the admin's notes, as the report stores
\* them, hold "reject" or "remove" in any case, and leaves its status as it
\* was when they do not; for paper reports and note reports alike.
C23_TakeActionRejectsOnKeyword ==
    [][\A k \in Kinds, r \in ReportIds :
         (/\ Served("resolve", k, r)
          /\ response'.arg = "take_action"
          /\ response'.err = "OK"
          /\ r \in DOMAIN ReportsOf(k)
          /\ ReportsOf(k)[r].status = "OPEN"
          /\ ReportsOf(k)[r].doc_id \in DOMAIN Docs(k)) =>
            LET doc == ReportsOf(k)[r].doc_id
            IN  IF SuggestsRejection(ReportsOf(k)'[r].admin_notes.notes)
                THEN Docs(k)'[doc].status = "REJECTED"
                ELSE Docs(k)'[doc].status = Docs(k)[doc].status]_vars

-----------------------------------------------------------------------------
(* WarnSpec: reports of one paper and one note, dismissed or answered with a *)
(* warning                                                                   *)

WarnNext ==
    \/ CreatePaper("u1", "h1", TRUE, TRUE)
    \/ CreateNote("u1", "h1", TRUE)
    \/ \E p \in DocIds : ModeratePaper(p, "approve", NoNotes)
    \/ \E n \in DocIds : UpdateNoteStatus(n, "APPROVED", NoNotes)
    \/ \E p \in DocIds : ReportPaper(p, "u2", "spam")
    \/ \E n \in DocIds : ReportNote(n, "u2", "spam")
    \/ \E r \in ReportIds, a \in {"dismiss", "warn_user"}, x \in AdminTexts : ResolveReport(r, a, x)

WarnSpec == Init /\ [][WarnNext]_vars

\* The columns of a report row a resolution does not write.
ReportSubject(row) ==
    [doc_id |-> row.doc_id, reporter_id |-> row.reporter_id, reason |-> row.reason]

\* C24: resolve_report with dismiss or warn_user on an OPEN report changes
\* nothing but that report's status, resolver, timestamp and admin notes
\* (and, for a warning, the notifications): every document keeps its
\* status, moderation notes and approved_at, the other reports and the
\* ratings are as they were, and a dismissal dispatches no notification.
C24_DismissAndWarnTouchOnlyReport ==
    [][\A r \in AllReportIds :
           (/\ response'.op = "resolve"
            /\ response'.id = r
            /\ response'.arg \in {"dismiss", "warn_user"}
            /\ ReportRow(r).status = "OPEN")
           => /\ papers' = papers
              /\ notes' = notes
              /\ ratings' = ratings
              /\ noteRatings' = noteRatings
              /\ DOMAIN reports' = DOMAIN reports
              /\ DOMAIN noteReports' = DOMAIN noteReports
              /\ \A q \in AllReportIds \ {r} : ReportRow(q)' = ReportRow(q)
              /\ ReportSubject(ReportRow(r)') = ReportSubject(ReportRow(r))
              /\ response'.arg = "dismiss" =>
                    /\ notifications' = notifications
                    /\ response'.notified = 0]_vars

\* An APPROVED paper's report was resolved with a warning: the warning was
\* dispatched, the report is CLOSED and the paper is APPROVED still.
C24_Witness ==
    \E r \in DOMAIN reports :
        /\ response.op = "resolve"
        /\ response.id = r
        /\ response.arg = "warn_user"
        /\ response.err = "OK"
        /\ response.notified = 1
        /\ notifications # <<>>
        /\ reports[r].status = "CLOSED"
        /\ papers[reports[r].doc_id].status = "APPROVED"
        /\ papers[reports[r].doc_id].approved_at # NullTime

\* C25: for every OPEN report of a paper or of a note, every action and
\* every admin text, bulk_resolve_reports given that one report leaves the
\* same reports, the same documents and the same notifications, with as
\* many dispatches attempted, as resolve_report given the report.
C25_BulkOfOneIsResolve ==
    \A r \in AllReportIds, a \in ResolveActions, x \in AdminTexts :
        ReportRow(r).status = "OPEN" =>
            LET single == resolve_report(DB, store, now, r, a, x)
                bulk == bulk_resolve_reports(DB, store, now, <<r>>, a, x)
            IN  /\ bulk.db.reports = single.db.reports
                /\ bulk.db.noteReports = single.db.noteReports
                /\ bulk.db.papers = single.db.papers
                /\ bulk.db.notes = single.db.notes
                /\ bulk.db.notifications = single.db.notifications
                /\ bulk.resp.notified = single.resp.notified

-----------------------------------------------------------------------------
(* TagSpec: tagged documents searched by lists of tags *)

\* Tag names as stored and as listed in a search.
TagNames == {<<"m">>, <<"m", "o">>}

\* Tag names as an upload gives them.
UploadTags == {<<"M">>, <<"m", "o">>}

TagNext ==
    \/ \E h \in Hashes, g \in SUBSET UploadTags : CreatePaperTagged("u1", h, g)
    \/ \E h \in Hashes, g \in SUBSET UploadTags : CreateNoteTagged("u1", h, g)
    \/ \E p \in DocIds : ModeratePaper(p, "approve", NoNotes)
    \/ \E n \in DocIds : UpdateNoteStatus(n, "APPROVED", NoNotes)
    \/ \E g \in SUBSET TagNames : SearchPapers(TagFilters(g), "u2")
    \/ \E g \in SUBSET TagNames : GetNotes(TagFilters(g), "u2")

TagSpec == Init /\ [][TagNext]_vars

\* C26: a search that lists tags returns only documents to which every tag
\* listed is attached.
C26_TagListIsConjunction ==
    \A k \in Kinds :
        (response.op = "search" /\ response.kind = k) =>
            \A i \in response.items : response.filters.tags \subseteq Docs(k)[i].tags

-----------------------------------------------------------------------------
(* UpdateSpec: tagged documents updated by their uploader, another student *)
(* and the admin                                                           *)

Patches ==
    {Patch(TRUE, "t1", FALSE, {}), Patch(FALSE, "", TRUE, {<<"m">>}), Patch(TRUE, "t1", TRUE, {})}

UpdateNext ==
    \/ \E g \in SUBSET UploadTags : CreatePaperTagged("u1", "h1", g)
    \/ \E g \in SUBSET UploadTags : CreateNoteTagged("u1", "h1", g)
    \/ \E p \in DocIds, c \in Patches, u \in Students \cup {Admin} : UpdatePaper(p, c, u)
    \/ \E n \in DocIds, c \in Patches, u \in Students \cup {Admin} : UpdateNote(n, c, u)

UpdateSpec == Init /\ [][UpdateNext]_vars

\* C27: an update of an existing document succeeds when the requester is
\* its uploader or an admin; from anyone else it fails with Forbidden and
\* leaves the documents, their tags included, as they were.
C27_UploaderOrAdminUpdates ==
    [][\A k \in Kinds, i \in DocIds :
         (Served("update", k, i) /\ i \in DOMAIN Docs(k)) =>
            IF response'.user = Docs(k)[i].uploader_id \/ response'.user = Admin
            THEN response'.err = "OK"
            ELSE /\ response'.err = "Forbidden"
                 /\ papers' = papers
                 /\ notes' = notes]_vars

-----------------------------------------------------------------------------
(* GateSpec: paper 1 and note 2 moderated, the paper pulled down by its first *)
(* report, both rated, bookmarked and downloaded by another student           *)

GateNext ==
    \/ CreatePaper("u1", "h1", TRUE, TRUE)
    \/ CreateNote("u1", "h1", TRUE)
    \/ ModeratePaper(1, "approve", NoNotes)
    \/ \E s \in {"APPROVED", "REJECTED"} : UpdateNoteStatus(2, s, NoNotes)
    \/ ReportPaper(1, "u2", "spam")
    \/ ResolveReport(1, "remove_paper", TxtEmpty)
    \/ RatePaper(1, "u2", 3)
    \/ RateNote(2, "u2", 3)
    \/ BookmarkPaper(1, "u2")
    \/ BookmarkNote(2, "u2")
    \/ DownloadPaper(1, "u2", TRUE)
    \/ DownloadNote(2, "u2", TRUE)

GateInit == Init /\ store = "postgresql"

GateSpec == GateInit /\ [][GateNext]_vars

-----------------------------------------------------------------------------
(* DownloadRaceSpec: NumReqs downloads of an approved paper, each in its own *)
(* session                                                                   *)

DownloadRaceInit ==
    /\ store \in Stores
    /\ SetDBInit
    /\ now = 1
    /\ response = NoResp
    /\ reqs = [i \in Slots |-> IdleReq]

DownloadRaceNext ==
    \/ CreatePaper("u1", "h1", TRUE, TRUE)
    \/ \E p \in DocIds : ModeratePaper(p, "approve", NoNotes)
    \/ \E i \in Slots, p \in DocIds, u \in {Anonymous, "u2"} : DownloadBegin(i, p, u)
    \/ \E i \in Slots, ok \in BOOLEAN : DownloadWrite(i, ok)

DownloadRaceSpec == DownloadRaceInit /\ [][DownloadRaceNext]_vars

\* The Download rows stored for a paper.
DownloadsOf(paper_id) ==
    {j \in 1..Len(downloads) : downloads[j].kind = "paper" /\ downloads[j].doc_id = paper_id}

\* C29: when no download_paper request is between its read and its commit,
\* every paper's download_count is the number of Download rows stored for
\* it.
C29_NoDownloadIncrementLost ==
    (\A i \in Slots : reqs[i].pc \in {"idle", "done"}) =>
        \A p \in DOMAIN papers : papers[p].download_count = Cardinality(DownloadsOf(p))

-----------------------------------------------------------------------------
(* LifecycleSpec: paper 1 and note 2 moved through every status a moderator *)
(* or a report resolution gives them                                        *)

LifecycleNext ==
    \/ CreatePaper("u1", "h1", TRUE, TRUE)
    \/ CreateNote("u1", "h1", TRUE)
    \/ \E a \in ModerationActions : ModeratePaper(1, a, NoNotes)
    \/ \E s \in PaperStatus : UpdateNoteStatus(2, s, NoNotes)
    \/ ReportPaper(1, "u2", "spam")
    \/ ReportNote(2, "u2", "spam")
    \/ \E r \in ReportIds : ResolveReport(r, "remove_paper", TxtEmpty)
    \/ \E r \in ReportIds : BulkResolveReports({r}, "remove_paper", TxtEmpty)
    \/ UpdatePaper(1, Patch(TRUE, "t1", FALSE, {}), Admin)

LifecycleSpec == Init /\ [][LifecycleNext]_vars

\* C30: a document that is APPROVED has an approved_at; a document is
\* created without one, and gets one only in a step that leaves it
\* APPROVED, so a document never approved has none.
C30_ApprovedAtFollowsApproval ==
    [][\A k \in Kinds, i \in DocIds :
         i \in DOMAIN Docs(k)' =>
            /\ Docs(k)'[i].status = "APPROVED" => Docs(k)'[i].approved_at # NullTime
            /\ (/\ i \in DOMAIN Docs(k) => Docs(k)[i].approved_at = NullTime
                /\ Docs(k)'[i].status # "APPROVED") =>
                  Docs(k)'[i].approved_at = NullTime]_vars

\* An APPROVED note with its approved_at beside a paper rejected from
\* PENDING that has none.
C30_Witness ==
    /\ \E n \in DOMAIN notes :
          notes[n].status = "APPROVED" /\ notes[n].approved_at # NullTime
    /\ \E p \in DOMAIN papers :
          papers[p].status = "REJECTED" /\ papers[p].approved_at = NullTime

=============================================================================
